---- MODULE Spec2Model ----
(***************************************************************************)
(* A model of the Document Architect toolkit:                              *)
(*   - the sprint planner of the story-builder workflow                    *)
(*     (src/src/mastra/workflows/story-builder-workflow.ts);               *)
(*   - the document pipeline, as run by the automation CLI                 *)
(*     (src/cli/architect-auto.ts) and by the documentArchitectPipeline    *)
(*     workflow (src/src/mastra/workflows/document-architect-pipeline.ts). *)
(* Strings whose characters matter are sequences of one-character strings. *)
(***************************************************************************)
EXTENDS Integers, Sequences, FiniteSets, TLC

VARIABLES
    \* ---- sprint planner (sprintPlanningStep.execute) ----
    detailedStories,       \* inputData.detailedStories
    velocity,              \* inputData.teamContext.velocity
    sortedStories,         \* const sortedStories
    sprintPlan,            \* const sprintPlan
    assignedStories,       \* const assignedStories
    currentSprint,         \* let currentSprint
    currentSprintPoints,   \* let currentSprintPoints
    currentSprintStories,  \* let currentSprintStories
    loopIndex,             \* position of the for-of iterator in sortedStories
    plannerPc,             \* "idle" | "sort" | "loop" | "flush" | "done"
    \* ---- document pipeline (CLI main/executePipeline, workflow steps) ----
    runner,                \* "cli" | "workflow" | "none"
    config,                \* the raw input object (JSON config / inputData)
    pc,                    \* position of the run
    acc,                   \* accumulated pipeline state (locals / step data)
    disk,                  \* files written: set of [path, content]
    events,                \* generation calls issued and files written, in order
    pendingCalls,          \* generation calls issued and not yet settled
    exitCode,              \* process.exit status (-1 while running)
    errors,                \* messages of the error that aborted the run
    result,                \* the PipelineResult returned, or Null
    \* ---- a call of one of the library functions ----
    call,                  \* the function called and its arguments
    ret,                   \* the value returned, or Pending before the call
    \* ---- the interactive session (src/run.ts, main) ----
    conversationHistory,   \* const conversationHistory: Message[]
    agentInput,            \* the messages handed to architectAgent.generate
    sessionPc,             \* "idle" | "greeting" | "prompt" | "generating" | "exited"
    \* ---- concurrent runs of executePipeline ----
    runs                   \* the locals of each run

plannerVars == <<detailedStories, velocity, sortedStories, sprintPlan,
                 assignedStories, currentSprint, currentSprintPoints,
                 currentSprintStories, loopIndex, plannerPc>>

pipelineVars == <<runner, config, pc, acc, disk, events, pendingCalls,
                  exitCode, errors, result>>

utilVars == <<call, ret>>

sessionVars == <<conversationHistory, agentInput, sessionPc>>

vars == <<plannerVars, pipelineVars, utilVars, sessionVars, runs>>

(***************************************************************************)
(* Bounds of the model                                                     *)
(***************************************************************************)
MaxStories == 3
MaxDependencies == 1
MaxDocuments == 2
MaxLines == 4
\* the story blocks of a Stories document given to the Jira export
MaxBlocks == 2
\* the stories of one priority given to the sprint planner
MaxPlanned == 4
\* the length of the project names given to sanitizeFilename
MaxNameLength == 3
\* the interview answers of a config given to buildPromptContext
MaxAnswers == 2
\* the list items under a heading of the document given to the story builder
MaxItems == 4
\* the messages of a conversation after which the user sends no new one
MaxMessages == 5

(***************************************************************************)
(* Sprint planner                                                          *)
(***************************************************************************)
Priorities == {"P0", "P1", "P2"}

\* story point estimates drawn from the Fibonacci set used by the workflow
StoryPointValues == {3, 8}

\* team velocities; with 6 a single 8-point story overflows a sprint
Velocities == {6, 10}

\* the dependency edges <<dependent, dependency>> among stories 1..n
DependencyEdges(n) ==
    { E \in SUBSET { e \in (1..n) \X (1..n) : e[1] # e[2] } :
        Cardinality(E) <= MaxDependencies }

\* the story lists given to the planner: story i of the list has id i, a
\* priority, a point estimate and the set of ids of stories it depends on
StoryLists(n) ==
    { [i \in 1..n |-> [id |-> i, priority |-> pr[i], storyPoints |-> pt[i],
                       dependencies |-> { j \in 1..n : <<i, j>> \in E }]] :
        pr \in [1..n -> Priorities], pt \in [1..n -> StoryPointValues],
        E \in DependencyEdges(n) }

\* String.prototype.localeCompare on the labels "P0" < "P1" < "P2"
PriorityRank(p) == CASE p = "P0" -> 0 [] p = "P1" -> 1 [] p = "P2" -> 2

localeCompare(p, q) ==
    IF PriorityRank(p) < PriorityRank(q) THEN -1
    ELSE IF PriorityRank(p) > PriorityRank(q) THEN 1 ELSE 0

\* mutant of compareStories: the priority test is lost
compareDependenciesOnly(a, b) ==
    IF b.id \in a.dependencies THEN 1
    ELSE IF a.id \in b.dependencies THEN -1
    ELSE 0

\* the comparator handed to sort
compareStories(a, b) ==
    IF a.priority # b.priority THEN localeCompare(a.priority, b.priority)
    ELSE IF b.id \in a.dependencies THEN 1
    ELSE IF a.id \in b.dependencies THEN -1
    ELSE 0

(* Array.prototype.sort as the runtime (V8, TimSort) performs it on an     *)
(* array shorter than one minimum run: the leading run is counted (and     *)
(* reversed when strictly descending), the rest is inserted by binary      *)
(* insertion.  The comparator is not a consistent order, so the result     *)
(* depends on exactly which pairs the algorithm compares.                  *)
RECURSIVE RunEnd(_, _, _)
RunEnd(s, i, descending) ==
    IF i > Len(s) THEN i - 1
    ELSE LET order == compareStories(s[i], s[i - 1])
         IN IF (descending /\ order >= 0) \/ (~descending /\ order < 0)
            THEN i - 1
            ELSE RunEnd(s, i + 1, descending)

Reverse(s) == [i \in 1..Len(s) |-> s[Len(s) + 1 - i]]

RECURSIVE BinarySearch(_, _, _, _)
BinarySearch(s, pivot, left, right) ==
    IF left >= right THEN left
    ELSE LET mid == left + ((right - left) \div 2)
         IN IF compareStories(pivot, s[mid]) < 0
            THEN BinarySearch(s, pivot, left, mid)
            ELSE BinarySearch(s, pivot, mid + 1, right)

RECURSIVE BinaryInsertionSort(_, _)
BinaryInsertionSort(s, start) ==
    IF start > Len(s) THEN s
    ELSE LET pivot == s[start]
             pos == BinarySearch(s, pivot, 1, start)
             moved == [i \in 1..Len(s) |->
                         IF i < pos \/ i > start THEN s[i]
                         ELSE IF i = pos THEN pivot
                         ELSE s[i - 1]]
         IN BinaryInsertionSort(moved, start + 1)

ArraySort(s) ==
    IF Len(s) < 2 THEN s
    ELSE LET descending == compareStories(s[2], s[1]) < 0
             runEnd == RunEnd(s, 3, descending)
             run == IF descending
                    THEN Reverse(SubSeq(s, 1, runEnd)) \o SubSeq(s, runEnd + 1, Len(s))
                    ELSE s
         IN BinaryInsertionSort(run, runEnd + 1)

\* mutant of ExceedsVelocity: a sprint that reaches the velocity is closed
ExceedsVelocityInclusive(points, story, stories, v) ==
    points + story.storyPoints >= v /\ Len(stories) > 0

\* mutant of ExceedsVelocity: the running total is left out of the test
ExceedsVelocityAlone(points, story, stories, v) ==
    story.storyPoints > v /\ Len(stories) > 0

\* the test that closes the current sprint before a story is placed
ExceedsVelocity(points, story, stories, v) ==
    points + story.storyPoints > v /\ Len(stories) > 0

\* mutant of SprintEntry: the stories are counted, not their points
SprintEntryCountingStories(number, stories, points) ==
    [sprintNumber |-> number, stories |-> stories, totalPoints |-> Len(stories)]

\* a sprintPlan entry (the focus label is derived text and is left out)
SprintEntry(number, stories, points) ==
    [sprintNumber |-> number, stories |-> stories, totalPoints |-> points]

PlannerIdle ==
    /\ detailedStories = <<>>
    /\ velocity = 0
    /\ sortedStories = <<>>
    /\ sprintPlan = <<>>
    /\ assignedStories = <<>>
    /\ currentSprint = 0
    /\ currentSprintPoints = 0
    /\ currentSprintStories = <<>>
    /\ loopIndex = 0
    /\ plannerPc = "idle"

\* story lists of one priority and without dependencies, with estimates of
\* 3, 5 and 8 points
EqualPriorityLists(n) ==
    { [i \in 1..n |-> [id |-> i, priority |-> "P1", storyPoints |-> pt[i],
                       dependencies |-> {}]] :
        pt \in [1..n -> StoryPointValues \cup {5}] }

\* the step is entered with stories of one priority
EqualPriorityStart ==
    /\ \E n \in 0..MaxPlanned : detailedStories \in EqualPriorityLists(n)
    /\ velocity \in Velocities
    /\ sortedStories = <<>>
    /\ sprintPlan = <<>>
    /\ assignedStories = <<>>
    /\ currentSprint = 0
    /\ currentSprintPoints = 0
    /\ currentSprintStories = <<>>
    /\ loopIndex = 0
    /\ plannerPc = "sort"

\* the step is entered with its inputData
PlannerStart ==
    /\ \E n \in 0..MaxStories : detailedStories \in StoryLists(n)
    /\ velocity \in Velocities
    /\ sortedStories = <<>>
    /\ sprintPlan = <<>>
    /\ assignedStories = <<>>
    /\ currentSprint = 0
    /\ currentSprintPoints = 0
    /\ currentSprintStories = <<>>
    /\ loopIndex = 0
    /\ plannerPc = "sort"

\* lines 720-745: sort a copy of the stories, set up the accumulators
SortStories ==
    /\ plannerPc = "sort"
    /\ UNCHANGED <<pipelineVars, utilVars, sessionVars, runs>>
    /\ sortedStories' = ArraySort(detailedStories)
    /\ sprintPlan' = <<>>
    /\ assignedStories' = <<>>
    /\ currentSprint' = 1
    /\ currentSprintPoints' = 0
    /\ currentSprintStories' = <<>>
    /\ loopIndex' = 1
    /\ plannerPc' = "loop"
    /\ UNCHANGED <<detailedStories, velocity>>

\* mutant of PlaceStory: a story that does not fit closes the sprint and is
\* examined again, whether or not the sprint held a story
PlaceStoryRetrying ==
    /\ plannerPc = "loop"
    /\ UNCHANGED <<pipelineVars, utilVars, sessionVars, runs>>
    /\ loopIndex <= Len(sortedStories)
    /\ LET story == sortedStories[loopIndex]
       IN IF currentSprintPoints + story.storyPoints > velocity
          THEN /\ sprintPlan' = Append(sprintPlan,
                                       SprintEntry(currentSprint,
                                                   currentSprintStories,
                                                   currentSprintPoints))
               /\ currentSprint' = currentSprint + 1
               /\ currentSprintPoints' = 0
               /\ currentSprintStories' = <<>>
               /\ UNCHANGED <<assignedStories, loopIndex>>
          ELSE /\ currentSprintPoints' = currentSprintPoints + story.storyPoints
               /\ currentSprintStories' = Append(currentSprintStories, story.id)
               /\ assignedStories' =
                     Append(assignedStories,
                            [id |-> story.id, priority |-> story.priority,
                             storyPoints |-> story.storyPoints,
                             dependencies |-> story.dependencies,
                             sprint |-> currentSprint])
               /\ loopIndex' = loopIndex + 1
               /\ UNCHANGED <<sprintPlan, currentSprint>>
    /\ UNCHANGED <<detailedStories, velocity, sortedStories, plannerPc>>

\* lines 747-774: one iteration of the for-of loop
PlaceStory ==
    /\ plannerPc = "loop"
    /\ UNCHANGED <<pipelineVars, utilVars, sessionVars, runs>>
    /\ loopIndex <= Len(sortedStories)
    /\ LET story == sortedStories[loopIndex]
           close == ExceedsVelocity(currentSprintPoints, story,
                                    currentSprintStories, velocity)
           sprint == IF close THEN currentSprint + 1 ELSE currentSprint
           points == IF close THEN 0 ELSE currentSprintPoints
           stories == IF close THEN <<>> ELSE currentSprintStories
       IN /\ sprintPlan' =
                IF close
                THEN Append(sprintPlan,
                            SprintEntry(currentSprint, currentSprintStories,
                                        currentSprintPoints))
                ELSE sprintPlan
          /\ currentSprint' = sprint
          /\ currentSprintPoints' = points + story.storyPoints
          /\ currentSprintStories' = Append(stories, story.id)
          /\ assignedStories' =
                Append(assignedStories,
                       [id |-> story.id, priority |-> story.priority,
                        storyPoints |-> story.storyPoints,
                        dependencies |-> story.dependencies,
                        sprint |-> sprint])
    /\ loopIndex' = loopIndex + 1
    /\ UNCHANGED <<detailedStories, velocity, sortedStories, plannerPc>>

\* the iterator is exhausted
LoopExit ==
    /\ plannerPc = "loop"
    /\ UNCHANGED <<pipelineVars, utilVars, sessionVars, runs>>
    /\ loopIndex > Len(sortedStories)
    /\ plannerPc' = "flush"
    /\ UNCHANGED <<detailedStories, velocity, sortedStories, sprintPlan,
                   assignedStories, currentSprint, currentSprintPoints,
                   currentSprintStories, loopIndex>>

\* mutant of FlushLastSprint: the sprint in progress is not pushed
FlushLastSprintSkipped ==
    /\ plannerPc = "flush"
    /\ UNCHANGED <<pipelineVars, utilVars, sessionVars, runs>>
    /\ plannerPc' = "done"
    /\ UNCHANGED <<detailedStories, velocity, sortedStories, sprintPlan,
                   assignedStories, currentSprint, currentSprintPoints,
                   currentSprintStories, loopIndex>>

\* lines 776-799: push the last sprint and return
FlushLastSprint ==
    /\ plannerPc = "flush"
    /\ UNCHANGED <<pipelineVars, utilVars, sessionVars, runs>>
    /\ sprintPlan' =
          IF Len(currentSprintStories) > 0
          THEN Append(sprintPlan,
                      SprintEntry(currentSprint, currentSprintStories,
                                  currentSprintPoints))
          ELSE sprintPlan
    /\ plannerPc' = "done"
    /\ UNCHANGED <<detailedStories, velocity, sortedStories, assignedStories,
                   currentSprint, currentSprintPoints, currentSprintStories,
                   loopIndex>>

(***************************************************************************)
(* JavaScript values                                                       *)
(***************************************************************************)
Undefined == [type |-> "undefined"]
Null == [type |-> "null"]
Str(chars) == [type |-> "string", chars |-> chars]
Bool(b) == [type |-> "boolean", bool |-> b]
Num(n) == [type |-> "number", num |-> n]
Arr(items) == [type |-> "array", items |-> items]
\* an object: its own properties in insertion order
Obj(entries) == [type |-> "object", entries |-> entries]

\* a property read: an absent property reads as undefined
Field(object, key) == IF key \in DOMAIN object THEN object[key] ELSE Undefined

IsString(v) == v.type = "string"
IsArray(v) == v.type = "array"

\* ToBoolean
Truthy(v) ==
    CASE v.type = "undefined" -> FALSE
      [] v.type = "null" -> FALSE
      [] v.type = "boolean" -> v.bool
      [] v.type = "number" -> v.num # 0
      [] v.type = "string" ->
            IF "chars" \in DOMAIN v THEN Len(v.chars) > 0 ELSE TRUE
      [] OTHER -> TRUE

HasKey(entries, k) == \E i \in 1..Len(entries) : entries[i].key = k

GetKey(entries, k) ==
    IF HasKey(entries, k)
    THEN entries[CHOOSE i \in 1..Len(entries) : entries[i].key = k].value
    ELSE Undefined

SetKey(entries, k, v) ==
    IF HasKey(entries, k)
    THEN [i \in 1..Len(entries) |->
            IF entries[i].key = k THEN [key |-> k, value |-> v] ELSE entries[i]]
    ELSE Append(entries, [key |-> k, value |-> v])

WhiteSpace == {" ", "\n", "\t"}

\* String.prototype.trim
RECURSIVE TrimStart(_)
TrimStart(chars) ==
    IF chars # <<>> /\ Head(chars) \in WhiteSpace THEN TrimStart(Tail(chars))
    ELSE chars

Trim(chars) == Reverse(TrimStart(Reverse(TrimStart(chars))))

RECURSIVE Join(_, _)
\* Array.prototype.join of an array of strings
Join(items, sep) ==
    IF items = <<>> THEN <<>>
    ELSE IF Len(items) = 1 THEN items[1].chars
    ELSE items[1].chars \o sep \o Join(Tail(items), sep)

(***************************************************************************)
(* Calls of library functions                                              *)
(***************************************************************************)
NoCall == [fn |-> "none"]
Pending == [type |-> "pending"]

\* the project name "My App! 2.0"
MyApp == <<"M","y"," ","A","p","p","!"," ","2",".","0">>

\* code units of project names: letters of both cases, a digit, the hyphen,
\* the underscore, and units outside the class (U+00E9 is one code unit)
NameUnits == {"M", "y", "2", "-", "_", " ", "!", ".", "U+00E9"}

\* calls of sanitizeFilename
SanitizeCalls ==
    { [fn |-> "sanitizeFilename", name |-> n, again |-> Pending] :
        n \in {MyApp} \cup UNION { [1..k -> NameUnits] : k \in 0..MaxNameLength } }

\* no library function is being called
UtilIdle == call = NoCall /\ ret = Pending

\* no interactive session is running
SessionIdle ==
    /\ conversationHistory = <<>>
    /\ agentInput = <<>>
    /\ sessionPc = "idle"

\* no concurrent runs
RunsIdle == runs = <<>>

(***************************************************************************)
(* Config normalizer and validation (src/src/types/config.ts)              *)
(***************************************************************************)
UntitledProject ==
    <<"U","n","t","i","t","l","e","d"," ","P","r","o","j","e","c","t">>

KeyRequirements ==
    <<"K","e","y"," ","r","e","q","u","i","r","e","m","e","n","t","s",":","\n","-"," ">>

\* lines 334-339: does the call write mvpScope (into result.interviewAnswers)?
MigratesRequirements(c) ==
    /\ IsArray(Field(c, "requirements")) /\ Len(c.requirements.items) > 0
    /\ LET given == Field(c, "interviewAnswers")
           answers == IF Truthy(given) /\ given.type = "object"
                      THEN given.entries ELSE <<>>
       IN ~Truthy(GetKey(answers, "mvpScope"))

MvpScopeOf(c) == Str(KeyRequirements \o Join(c.requirements.items, <<"\n","-"," ">>))

\* typeof value === 'string' ? value : undefined
StringOrAbsent(v) == IF IsString(v) THEN v ELSE Undefined

\* Array.isArray(value) ? value : undefined
ArrayOrAbsent(v) == IF IsArray(v) THEN v ELSE Undefined

\* value && typeof value === 'object' ? value : undefined
ObjectOrAbsent(v) == IF Truthy(v) /\ v.type = "object" THEN v ELSE Undefined

\* mutant of normalizeConfig: the input is spread into the result and the
\* legacy description is appended to the context
normalizeConfigAppendingDescription(c) ==
    LET context == StringOrAbsent(Field(c, "context"))
        description == Field(c, "description")
    IN [projectName |-> IF IsString(Field(c, "projectName")) THEN c.projectName
                        ELSE Str(UntitledProject),
        context |-> IF IsString(description)
                    THEN Str((IF context = Undefined THEN <<>> ELSE context.chars)
                             \o description.chars)
                    ELSE context,
        description |-> description,
        sourceDocuments |-> ArrayOrAbsent(Field(c, "sourceDocuments")),
        interviewAnswers |-> ObjectOrAbsent(Field(c, "interviewAnswers")),
        mode |-> StringOrAbsent(Field(c, "mode")),
        techStack |-> ArrayOrAbsent(Field(c, "techStack")),
        hasFrontend |-> IF Field(c, "hasFrontend").type = "boolean"
                        THEN c.hasFrontend ELSE Undefined,
        teamContext |-> ObjectOrAbsent(Field(c, "teamContext")),
        jiraProjectKey |-> StringOrAbsent(Field(c, "jiraProjectKey")),
        author |-> StringOrAbsent(Field(c, "author"))]

\* mutant of normalizeConfig: the legacy fields are migrated whatever the
\* explicit ones are
normalizeConfigLegacyWins(c) ==
    LET copied ==
          [projectName |-> IF IsString(Field(c, "projectName")) THEN c.projectName
                           ELSE Str(UntitledProject),
           context |-> StringOrAbsent(Field(c, "context")),
           sourceDocuments |-> ArrayOrAbsent(Field(c, "sourceDocuments")),
           interviewAnswers |-> ObjectOrAbsent(Field(c, "interviewAnswers")),
           mode |-> StringOrAbsent(Field(c, "mode")),
           techStack |-> ArrayOrAbsent(Field(c, "techStack")),
           hasFrontend |-> IF Field(c, "hasFrontend").type = "boolean"
                           THEN c.hasFrontend ELSE Undefined,
           teamContext |-> ObjectOrAbsent(Field(c, "teamContext")),
           jiraProjectKey |-> StringOrAbsent(Field(c, "jiraProjectKey")),
           author |-> StringOrAbsent(Field(c, "author"))]
        withContext ==
          IF IsString(Field(c, "description"))
          THEN [copied EXCEPT !.context = c.description]
          ELSE copied
    IN IF IsArray(Field(c, "requirements")) /\ Len(c.requirements.items) > 0
       THEN [withContext EXCEPT !.interviewAnswers =
               Obj(SetKey(IF copied.interviewAnswers = Undefined THEN <<>>
                          ELSE copied.interviewAnswers.entries,
                          "mvpScope", MvpScopeOf(c)))]
       ELSE withContext

\* the value normalizeConfig returns
normalizeConfig(c) ==
    LET copied ==
          [projectName |-> IF IsString(Field(c, "projectName")) THEN c.projectName
                           ELSE Str(UntitledProject),
           context |-> StringOrAbsent(Field(c, "context")),
           sourceDocuments |-> ArrayOrAbsent(Field(c, "sourceDocuments")),
           interviewAnswers |-> ObjectOrAbsent(Field(c, "interviewAnswers")),
           mode |-> StringOrAbsent(Field(c, "mode")),
           techStack |-> ArrayOrAbsent(Field(c, "techStack")),
           hasFrontend |-> IF Field(c, "hasFrontend").type = "boolean"
                           THEN c.hasFrontend ELSE Undefined,
           teamContext |-> ObjectOrAbsent(Field(c, "teamContext")),
           jiraProjectKey |-> StringOrAbsent(Field(c, "jiraProjectKey")),
           author |-> StringOrAbsent(Field(c, "author"))]
        withContext ==
          IF IsString(Field(c, "description")) /\ ~Truthy(copied.context)
          THEN [copied EXCEPT !.context = c.description]
          ELSE copied
    IN IF MigratesRequirements(c)
       THEN [withContext EXCEPT !.interviewAnswers =
               Obj(SetKey(IF copied.interviewAnswers = Undefined THEN <<>>
                          ELSE copied.interviewAnswers.entries,
                          "mvpScope", MvpScopeOf(c)))]
       ELSE withContext

\* the input object after the call: result.interviewAnswers is the input's own
\* interviewAnswers object (line 303), so the write of line 337 lands in it
InputAfterNormalize(c) ==
    IF MigratesRequirements(c) /\ Truthy(c.interviewAnswers)
                               /\ c.interviewAnswers.type = "object"
    THEN [c EXCEPT !.interviewAnswers =
            Obj(SetKey(c.interviewAnswers.entries, "mvpScope", MvpScopeOf(c)))]
    ELSE c

MissingProjectName == "Missing required field: projectName"
NeedsContext ==
    "Configuration needs context. Provide at least one of: context, sourceDocuments, or interviewAnswers"

hasContext(n) == Truthy(n.context) /\ Len(Trim(n.context.chars)) > 0
hasSourceDocs(n) == Truthy(n.sourceDocuments) /\ Len(n.sourceDocuments.items) > 0
hasInterviewAnswers(n) ==
    /\ Truthy(n.interviewAnswers)
    /\ \E i \in 1..Len(n.interviewAnswers.entries) :
          LET v == n.interviewAnswers.entries[i].value
          IN Truthy(v) /\ Len(Trim(v.chars)) > 0

RECURSIVE Text(_)
\* the characters as one string
Text(chars) == IF chars = <<>> THEN "" ELSE Head(chars) \o Text(Tail(chars))

\* line 374
validModes ==
    { <<"P","R","D">>, <<"T","D","R">>,
      <<"F","R","O","N","T","E","N","D","_","T","D","R">>,
      <<"S","T","O","R","I","E","S">>, <<"A","L","L">> }

\* `Invalid mode: ${config.mode}. Valid modes: ${validModes.join(', ')}`
InvalidMode(mode) ==
    "Invalid mode: " \o Text(mode.chars)
    \o ". Valid modes: PRD, TDR, FRONTEND_TDR, STORIES, ALL"

\* mutant of validateConfigSchema: the context check is lost
validateProjectNameOnly(n) ==
    (IF ~Truthy(n.projectName) \/ ~IsString(n.projectName)
     THEN <<MissingProjectName>> ELSE <<>>)
    \o
    (IF Truthy(Field(n, "mode")) /\ n.mode.chars \notin validModes
     THEN <<InvalidMode(n.mode)>> ELSE <<>>)

\* validateConfig of config.ts: the list of error messages
validateConfigSchema(n) ==
    (IF ~Truthy(n.projectName) \/ ~IsString(n.projectName)
     THEN <<MissingProjectName>> ELSE <<>>)
    \o
    (IF ~hasContext(n) /\ ~hasSourceDocs(n) /\ ~hasInterviewAnswers(n)
     THEN <<NeedsContext>> ELSE <<>>)
    \o
    (IF Truthy(Field(n, "mode")) /\ n.mode.chars \notin validModes
     THEN <<InvalidMode(n.mode)>> ELSE <<>>)


(***************************************************************************)
(* Files and names                                                         *)
(***************************************************************************)
UpperCase == <<"A","B","C","D","E","F","G","H","I","J","K","L","M",
               "N","O","P","Q","R","S","T","U","V","W","X","Y","Z">>
LowerCase == <<"a","b","c","d","e","f","g","h","i","j","k","l","m",
               "n","o","p","q","r","s","t","u","v","w","x","y","z">>
Digits == {"0","1","2","3","4","5","6","7","8","9"}

Range(f) == { f[i] : i \in DOMAIN f }

\* the lower-case letter of each upper-case letter
LowerCaseOf ==
    [ch \in Range(UpperCase) |->
        LowerCase[CHOOSE i \in 1..Len(UpperCase) : UpperCase[i] = ch]]

\* String.prototype.toLowerCase, one character
toLowerCase(ch) == IF ch \in DOMAIN LowerCaseOf THEN LowerCaseOf[ch] ELSE ch

\* the class [a-zA-Z0-9-_]
FilenameSafe(ch) ==
    ch \in Range(UpperCase) \cup Range(LowerCase) \cup Digits \cup {"-", "_"}

\* mutant of sanitizeFilename: a run of other characters becomes one hyphen
sanitizeFilenameCollapsing(name) ==
    LET kept == SelectSeq([i \in 1..Len(name) |-> [at |-> i, ch |-> name[i]]],
                          LAMBDA c : \/ FilenameSafe(c.ch)
                                     \/ c.at = 1
                                     \/ FilenameSafe(name[c.at - 1]))
    IN [i \in 1..Len(kept) |->
           toLowerCase(IF FilenameSafe(kept[i].ch) THEN kept[i].ch ELSE "-")]

\* name.replace(/[^a-zA-Z0-9-_]/g, '-').toLowerCase(), on UTF-16 code units
sanitizeFilename(name) ==
    [i \in 1..Len(name) |-> toLowerCase(IF FilenameSafe(name[i]) THEN name[i] ELSE "-")]

\* getTimestamp(): the date of the run
Today == "2026-01-12"

\* the path string path.join(cwd, dir, `${slug}-${kind}-${date}.${ext}`)
FilePath(dir, slug, kind, ext) ==
    [type |-> "string", dir |-> dir, slug |-> slug, kind |-> kind,
     date |-> Today, ext |-> ext]

\* fs.writeFileSync: creates the file or replaces its content
writeFileSync(files, path, content) ==
    { f \in files : f.path # path } \cup { [path |-> path, content |-> content] }

Generate(stage) == [op |-> "generate", stage |-> stage]
Write(stage) == [op |-> "write", stage |-> stage]

\* the texts the generation service may return
Responses == { Str(<<"A">>), Str(<<"B">>) }

(***************************************************************************)
(* Pipeline inputs                                                         *)
(***************************************************************************)
Demo == <<"D","e","m","o">>
BuildX == <<"b","u","i","l","d"," ","X">>
DemoKey == <<"D","E","M","O">>
OtherKey == <<"P","R","J">>

ProjectNameValues == { Undefined, Num(42), Str(<<>>), Str(Demo) }
ContextValues == { Undefined, Str(<<" ">>), Str(BuildX) }
SourceDocumentsValues == { Undefined, Arr(<<>>), Arr(<<Str(<<"a",".","m","d">>)>>) }
InterviewAnswersValues ==
    { Undefined,
      Obj(<<[key |-> "problem", value |-> Str(<<" ">>)]>>),
      Obj(<<[key |-> "problem", value |-> Str(<<"p">>)]>>) }
DescriptionValues == { Undefined, Str(<<"o","l","d">>) }
RequirementsValues == { Undefined, Arr(<<Str(<<"r","1">>)>>) }
TechStackValues == { Undefined, Arr(<<Str(<<"R","e","a","c","t">>)>>) }
HasFrontendValues == { Undefined, Bool(FALSE), Bool(TRUE) }
JiraProjectKeyValues == { Undefined, Str(DemoKey), Str(OtherKey) }

Configs ==
    [projectName : ProjectNameValues, context : ContextValues,
     sourceDocuments : SourceDocumentsValues,
     interviewAnswers : InterviewAnswersValues,
     description : DescriptionValues, requirements : RequirementsValues,
     techStack : TechStackValues, hasFrontend : HasFrontendValues,
     jiraProjectKey : JiraProjectKeyValues]

\* locals of executePipeline / the data handed from step to step
NoData ==
    [projectName |-> Undefined, hasFrontend |-> Undefined,
     jiraProjectKey |-> Undefined,
     prdContent |-> Undefined, prdPath |-> Undefined,
     tdrContent |-> Undefined, tdrPath |-> Undefined,
     frontendTdrContent |-> Undefined, frontendTdrPath |-> Undefined,
     storiesContent |-> Undefined, storiesPath |-> Undefined]

PipelineIdle ==
    /\ runner = "none"
    /\ config = Undefined
    /\ pc = "idle"
    /\ acc = NoData
    /\ disk = {}
    /\ events = <<>>
    /\ pendingCalls = 0
    /\ exitCode = -1
    /\ errors = <<>>
    /\ result = Null

PipelineStart ==
    /\ runner \in {"cli", "workflow"}
    /\ config \in Configs
    /\ pc = "start"
    /\ acc = NoData
    /\ disk = {}
    /\ events = <<>>
    /\ pendingCalls = 0
    /\ exitCode = -1
    /\ errors = <<>>
    /\ result = Null

(***************************************************************************)
(* Steps shared by the stages                                              *)
(***************************************************************************)
\* `await agent.generate([...])`: the call is issued and the run suspends
IssueGenerate(stage, next) ==
    /\ events' = Append(events, Generate(stage))
    /\ pendingCalls' = pendingCalls + 1
    /\ pc' = next
    /\ UNCHANGED <<runner, config, acc, disk, exitCode, errors, result>>

\* mutant of SaveGenerated: the text is kept for a write batched at the end
SaveGeneratedDeferred(response, stage, contentKey, pathKey, path, next) ==
    /\ pendingCalls' = pendingCalls - 1
    /\ acc' = [acc EXCEPT ![contentKey] = response, ![pathKey] = path]
    /\ pc' = next
    /\ UNCHANGED <<runner, config, disk, events, exitCode, errors, result>>

\* the call resolved with `response`: keep the text, saveDocument(text, filename)
SaveGenerated(response, stage, contentKey, pathKey, path, next) ==
    /\ pendingCalls' = pendingCalls - 1
    /\ acc' = [acc EXCEPT ![contentKey] = response, ![pathKey] = path]
    /\ disk' = writeFileSync(disk, path, response)
    /\ events' = Append(events, Write(stage))
    /\ pc' = next
    /\ UNCHANGED <<runner, config, exitCode, errors, result>>

Awaiting == {"awaitPRD", "awaitTDR", "awaitFrontendTDR", "awaitStories"}

Slug == sanitizeFilename(acc.projectName.chars)

\* generateJiraCSV(storiesContent, projectKey, projectName), kept symbolic
JiraCSV(storiesContent, projectKey, projectName) ==
    [type |-> "string", csvOf |-> storiesContent, projectKey |-> projectKey,
     projectName |-> projectName]

\* the PipelineResult (documents and exports)
PipelineResult(data, jiraExportPath) ==
    [type |-> "object", success |-> TRUE,
     documents |-> [prd |-> data.prdPath, tdr |-> data.tdrPath,
                    frontendTdr |-> data.frontendTdrPath,
                    stories |-> data.storiesPath],
     exports |-> [jira |-> jiraExportPath]]

(***************************************************************************)
(* The automation CLI (src/cli/architect-auto.ts)                          *)
(***************************************************************************)
\* validateConfig of the CLI: the errors it throws for a raw config
validateConfig(c) == validateConfigSchema(normalizeConfig(c))

TypeErrorTechStack == "Cannot read properties of undefined (reading 'join')"
GenerationError == "generation service call failed"

\* process.exit(1) from the catch block of main
ExitWithError(messages) ==
    /\ errors' = messages
    /\ exitCode' = 1
    /\ pc' = "exited"

\* main, lines 572-598, and executePipeline, lines 360-392
Main ==
    /\ runner = "cli" /\ pc = "start"
    /\ UNCHANGED <<plannerVars, utilVars, sessionVars, runs>>
    /\ LET found == validateConfig(config)
           input == InputAfterNormalize(config)
           normalizedConfig == normalizeConfig(input)
       IN /\ config' = input
          /\ IF found # <<>>
             THEN ExitWithError(found) /\ acc' = acc
             ELSE IF ~IsArray(input.techStack)
             THEN ExitWithError(<<TypeErrorTechStack>>) /\ acc' = acc
             ELSE /\ acc' = [NoData EXCEPT
                              !.projectName = normalizedConfig.projectName,
                              !.hasFrontend = normalizedConfig.hasFrontend,
                              !.jiraProjectKey = normalizedConfig.jiraProjectKey]
                  /\ pc' = "step1"
                  /\ UNCHANGED <<exitCode, errors>>
    /\ UNCHANGED <<runner, disk, events, pendingCalls, result>>

\* lines 397-404
CliGeneratePRD ==
    /\ runner = "cli" /\ pc = "step1"
    /\ UNCHANGED <<plannerVars, utilVars, sessionVars, runs>>
    /\ IssueGenerate("PRD", "awaitPRD")

\* lines 405-409
CliSavePRD ==
    /\ runner = "cli" /\ pc = "awaitPRD"
    /\ UNCHANGED <<plannerVars, utilVars, sessionVars, runs>>
    /\ \E response \in Responses :
          SaveGenerated(response, "PRD", "prdContent", "prdPath",
                        FilePath("docs", Slug, "prd", "md"), "step2")

\* lines 414-421
CliGenerateTDR ==
    /\ runner = "cli" /\ pc = "step2"
    /\ UNCHANGED <<plannerVars, utilVars, sessionVars, runs>>
    /\ IssueGenerate("TDR", "awaitTDR")

\* lines 422-426
CliSaveTDR ==
    /\ runner = "cli" /\ pc = "awaitTDR"
    /\ UNCHANGED <<plannerVars, utilVars, sessionVars, runs>>
    /\ \E response \in Responses :
          SaveGenerated(response, "TDR", "tdrContent", "tdrPath",
                        FilePath("docs", Slug, "tdr", "md"), "step3")

\* mutant of CliFrontendTDR: the hasFrontend test is lost
CliFrontendTDRAlways ==
    /\ runner = "cli" /\ pc = "step3"
    /\ UNCHANGED <<plannerVars, utilVars, sessionVars, runs>>
    /\ acc' = [acc EXCEPT !.frontendTdrPath = Null, !.frontendTdrContent = Null]
    /\ events' = Append(events, Generate("FrontendTDR"))
    /\ pendingCalls' = pendingCalls + 1
    /\ pc' = "awaitFrontendTDR"
    /\ UNCHANGED <<runner, config, disk, exitCode, errors, result>>

\* lines 431-442 and 448-450
CliFrontendTDR ==
    /\ runner = "cli" /\ pc = "step3"
    /\ UNCHANGED <<plannerVars, utilVars, sessionVars, runs>>
    /\ acc' = [acc EXCEPT !.frontendTdrPath = Null, !.frontendTdrContent = Null]
    /\ IF Truthy(acc.hasFrontend)
       THEN /\ events' = Append(events, Generate("FrontendTDR"))
            /\ pendingCalls' = pendingCalls + 1
            /\ pc' = "awaitFrontendTDR"
       ELSE /\ pc' = "step4"
            /\ UNCHANGED <<events, pendingCalls>>
    /\ UNCHANGED <<runner, config, disk, exitCode, errors, result>>

\* lines 443-447
CliSaveFrontendTDR ==
    /\ runner = "cli" /\ pc = "awaitFrontendTDR"
    /\ UNCHANGED <<plannerVars, utilVars, sessionVars, runs>>
    /\ \E response \in Responses :
          SaveGenerated(response, "FrontendTDR", "frontendTdrContent",
                        "frontendTdrPath",
                        FilePath("docs", Slug, "frontend-tdr", "md"), "step4")

\* lines 455-469
CliGenerateStories ==
    /\ runner = "cli" /\ pc = "step4"
    /\ UNCHANGED <<plannerVars, utilVars, sessionVars, runs>>
    /\ IssueGenerate("Stories", "awaitStories")

\* lines 470-474
CliSaveStories ==
    /\ runner = "cli" /\ pc = "awaitStories"
    /\ UNCHANGED <<plannerVars, utilVars, sessionVars, runs>>
    /\ \E response \in Responses :
          SaveGenerated(response, "Stories", "storiesContent", "storiesPath",
                        FilePath("docs/stories", Slug, "stories", "md"), "step5")

\* lines 479-551, then main, lines 600-609
CliExport ==
    /\ runner = "cli" /\ pc = "step5"
    /\ UNCHANGED <<plannerVars, utilVars, sessionVars, runs>>
    /\ LET jiraExportPath == FilePath("docs/exports", Slug, "jira", "csv")
       IN IF Truthy(acc.jiraProjectKey)
          THEN /\ disk' = writeFileSync(disk, jiraExportPath,
                             JiraCSV(acc.storiesContent, acc.jiraProjectKey,
                                     acc.projectName))
               /\ events' = Append(events, Write("Export"))
               /\ result' = PipelineResult(acc, jiraExportPath)
          ELSE /\ result' = PipelineResult(acc, Null)
               /\ UNCHANGED <<disk, events>>
    /\ exitCode' = 0
    /\ pc' = "exited"
    /\ UNCHANGED <<runner, config, acc, pendingCalls, errors>>

\* mutant of CliGenerationFails: the rejection is caught and the call retried
CliGenerationRetried ==
    /\ runner = "cli" /\ pc \in Awaiting
    /\ UNCHANGED <<plannerVars, utilVars, sessionVars, runs>>
    /\ events' = Append(events, events[Len(events)])
    /\ UNCHANGED <<runner, config, pc, acc, disk, pendingCalls, exitCode,
                   errors, result>>

\* a generate call rejects: nothing in executePipeline catches it, the catch
\* block of main (lines 616-626) reports it and exits
CliGenerationFails ==
    /\ runner = "cli" /\ pc \in Awaiting
    /\ UNCHANGED <<plannerVars, utilVars, sessionVars, runs>>
    /\ pendingCalls' = pendingCalls - 1
    /\ ExitWithError(<<GenerationError>>)
    /\ UNCHANGED <<runner, config, acc, disk, events, result>>

CliNext ==
    \/ Main
    \/ CliGeneratePRD \/ CliSavePRD
    \/ CliGenerateTDR \/ CliSaveTDR
    \/ CliFrontendTDR \/ CliSaveFrontendTDR
    \/ CliGenerateStories \/ CliSaveStories
    \/ CliExport
    \/ CliGenerationFails

(***************************************************************************)
(* The documentArchitectPipeline workflow                                  *)
(* (src/src/mastra/workflows/document-architect-pipeline.ts)               *)
(***************************************************************************)
\* PipelineInputSchema: does the input parse?
PipelineInputSchema(c) ==
    /\ IsString(c.projectName)
    /\ IsString(c.description)
    /\ IsArray(c.requirements)
    /\ IsArray(c.techStack)
    /\ c.hasFrontend.type \in {"undefined", "boolean"}
    /\ c.jiraProjectKey.type \in {"undefined", "string"}

InvalidInput == "input does not match PipelineInputSchema"

\* the run is started: the input is parsed against the workflow's inputSchema
WorkflowStart ==
    /\ runner = "workflow" /\ pc = "start"
    /\ UNCHANGED <<plannerVars, utilVars, sessionVars, runs>>
    /\ IF PipelineInputSchema(config)
       THEN /\ acc' = [NoData EXCEPT
                         !.projectName = config.projectName,
                         !.hasFrontend = IF config.hasFrontend = Undefined
                                         THEN Bool(FALSE) ELSE config.hasFrontend,
                         !.jiraProjectKey = config.jiraProjectKey]
            /\ pc' = "step1"
            /\ UNCHANGED errors
       ELSE /\ errors' = <<InvalidInput>>
            /\ pc' = "failed"
            /\ UNCHANGED acc
    /\ UNCHANGED <<runner, config, disk, events, pendingCalls, exitCode, result>>

\* generatePRDStep.execute, lines 116-145
GeneratePRDStep ==
    /\ runner = "workflow" /\ pc = "step1"
    /\ UNCHANGED <<plannerVars, utilVars, sessionVars, runs>>
    /\ IssueGenerate("PRD", "awaitPRD")

\* generatePRDStep.execute, lines 147-162
GeneratePRDStepSave ==
    /\ runner = "workflow" /\ pc = "awaitPRD"
    /\ UNCHANGED <<plannerVars, utilVars, sessionVars, runs>>
    /\ \E response \in Responses :
          SaveGenerated(response, "PRD", "prdContent", "prdPath",
                        FilePath("docs", Slug, "prd", "md"), "step2")

\* generateTDRStep.execute, lines 199-229
GenerateTDRStep ==
    /\ runner = "workflow" /\ pc = "step2"
    /\ UNCHANGED <<plannerVars, utilVars, sessionVars, runs>>
    /\ IssueGenerate("TDR", "awaitTDR")

\* generateTDRStep.execute, lines 231-239
GenerateTDRStepSave ==
    /\ runner = "workflow" /\ pc = "awaitTDR"
    /\ UNCHANGED <<plannerVars, utilVars, sessionVars, runs>>
    /\ \E response \in Responses :
          SaveGenerated(response, "TDR", "tdrContent", "tdrPath",
                        FilePath("docs", Slug, "tdr", "md"), "step3")

\* generateFrontendTDRStep.execute, lines 280-330
GenerateFrontendTDRStep ==
    /\ runner = "workflow" /\ pc = "step3"
    /\ UNCHANGED <<plannerVars, utilVars, sessionVars, runs>>
    /\ IF ~Truthy(acc.hasFrontend)
       THEN /\ acc' = [acc EXCEPT !.frontendTdrContent = Null,
                                  !.frontendTdrPath = Null]
            /\ pc' = "step4"
            /\ UNCHANGED <<events, pendingCalls>>
       ELSE /\ events' = Append(events, Generate("FrontendTDR"))
            /\ pendingCalls' = pendingCalls + 1
            /\ pc' = "awaitFrontendTDR"
            /\ UNCHANGED acc
    /\ UNCHANGED <<runner, config, disk, exitCode, errors, result>>

\* generateFrontendTDRStep.execute, lines 332-340
GenerateFrontendTDRStepSave ==
    /\ runner = "workflow" /\ pc = "awaitFrontendTDR"
    /\ UNCHANGED <<plannerVars, utilVars, sessionVars, runs>>
    /\ \E response \in Responses :
          SaveGenerated(response, "FrontendTDR", "frontendTdrContent",
                        "frontendTdrPath",
                        FilePath("docs", Slug, "frontend-tdr", "md"), "step4")

\* generateStoriesStep.execute, lines 380-431
GenerateStoriesStep ==
    /\ runner = "workflow" /\ pc = "step4"
    /\ UNCHANGED <<plannerVars, utilVars, sessionVars, runs>>
    /\ IssueGenerate("Stories", "awaitStories")

\* generateStoriesStep.execute, lines 433-463
GenerateStoriesStepSave ==
    /\ runner = "workflow" /\ pc = "awaitStories"
    /\ UNCHANGED <<plannerVars, utilVars, sessionVars, runs>>
    /\ \E response \in Responses :
          SaveGenerated(response, "Stories", "storiesContent", "storiesPath",
                        FilePath("docs/stories", Slug, "stories", "md"), "step5")

\* exportAndSaveStep.execute, lines 488-544
ExportAndSaveStep ==
    /\ runner = "workflow" /\ pc = "step5"
    /\ UNCHANGED <<plannerVars, utilVars, sessionVars, runs>>
    /\ LET jiraExportPath == FilePath("docs/exports", Slug, "jira", "csv")
       IN IF Truthy(acc.jiraProjectKey)
          THEN /\ disk' = writeFileSync(disk, jiraExportPath,
                             JiraCSV(acc.storiesContent, acc.jiraProjectKey,
                                     acc.projectName))
               /\ events' = Append(events, Write("Export"))
               /\ result' = PipelineResult(acc, jiraExportPath)
          ELSE /\ result' = PipelineResult(acc, Null)
               /\ UNCHANGED <<disk, events>>
    /\ pc' = "done"
    /\ UNCHANGED <<runner, config, acc, pendingCalls, exitCode, errors>>

\* a generate call rejects inside a step: the step throws, the run fails and
\* the steps chained after it are not executed
StepGenerationFails ==
    /\ runner = "workflow" /\ pc \in Awaiting
    /\ UNCHANGED <<plannerVars, utilVars, sessionVars, runs>>
    /\ pendingCalls' = pendingCalls - 1
    /\ errors' = <<GenerationError>>
    /\ pc' = "failed"
    /\ UNCHANGED <<runner, config, acc, disk, events, exitCode, result>>

WorkflowNext ==
    \/ WorkflowStart
    \/ GeneratePRDStep \/ GeneratePRDStepSave
    \/ GenerateTDRStep \/ GenerateTDRStepSave
    \/ GenerateFrontendTDRStep \/ GenerateFrontendTDRStepSave
    \/ GenerateStoriesStep \/ GenerateStoriesStepSave
    \/ ExportAndSaveStep
    \/ StepGenerationFails

(***************************************************************************)
(* Text: strings are sequences of characters, positions count from 1       *)
(***************************************************************************)
\* the line terminators of the regular-expression dialect
LineTerminators == {"\n", "\r"}

\* does the word `w` occur in `s` at position i
StartsAt(s, i, w) ==
    /\ i >= 1
    /\ i + Len(w) - 1 <= Len(s)
    /\ \A k \in 1..Len(w) : s[i + k - 1] = w[k]

\* the same under the i flag
StartsAtIgnoreCase(s, i, w) ==
    /\ i >= 1
    /\ i + Len(w) - 1 <= Len(s)
    /\ \A k \in 1..Len(w) : toLowerCase(s[i + k - 1]) = toLowerCase(w[k])

\* ^ under the m flag
LineStart(s, i) == i = 1 \/ (i > 1 /\ i <= Len(s) + 1 /\ s[i - 1] \in LineTerminators)

\* the first position at or after i that is not in the class; Len(s) + 1 if none
SkipClass(s, i, class) ==
    CHOOSE j \in i..(Len(s) + 1) :
        /\ j = Len(s) + 1 \/ s[j] \notin class
        /\ \A k \in i..(j - 1) : s[k] \in class

\* the first position at or after i that is in the class; Len(s) + 1 if none
FindClass(s, i, class) ==
    CHOOSE j \in i..(Len(s) + 1) :
        /\ j = Len(s) + 1 \/ s[j] \in class
        /\ \A k \in i..(j - 1) : s[k] \notin class

\* String.prototype.indexOf from position i; 0 if the word does not occur
IndexOf(s, w, i) ==
    IF \E j \in i..Len(s) : StartsAt(s, j, w)
    THEN CHOOSE j \in i..Len(s) :
            StartsAt(s, j, w) /\ \A k \in i..(j - 1) : ~StartsAt(s, k, w)
    ELSE 0

Includes(s, w) == IndexOf(s, w, 1) # 0

\* String.prototype.slice(0, n)
SliceTo(s, n) ==
    LET end == IF n < 0 THEN (IF Len(s) + n < 0 THEN 0 ELSE Len(s) + n)
               ELSE IF n > Len(s) THEN Len(s) ELSE n
    IN SubSeq(s, 1, end)

\* String.prototype.toUpperCase, one character
toUpperCase(ch) ==
    IF ch \in Range(LowerCase)
    THEN UpperCase[CHOOSE i \in 1..Len(LowerCase) : LowerCase[i] = ch]
    ELSE ch

\* the class \w
WordChar(ch) ==
    ch \in Range(UpperCase) \cup Range(LowerCase) \cup Digits \cup {"_"}

\* Number.prototype.toString of a natural number
RECURSIVE NumberToString(_)
NumberToString(n) ==
    LET digit == <<"0","1","2","3","4","5","6","7","8","9">>[(n % 10) + 1]
    IN IF n < 10 THEN <<digit>> ELSE Append(NumberToString(n \div 10), digit)

DigitValue(ch) == CHOOSE d \in 0..9 : NumberToString(d) = <<ch>>

\* parseInt of a string of digits (NaN for the empty string is left to callers)
RECURSIVE ParseDigits(_)
ParseDigits(ds) ==
    IF ds = <<>> THEN 0
    ELSE ParseDigits(SubSeq(ds, 1, Len(ds) - 1)) * 10 + DigitValue(ds[Len(ds)])

RECURSIVE JoinChars(_, _)
\* Array.prototype.join of an array of character sequences
JoinChars(items, sep) ==
    IF items = <<>> THEN <<>>
    ELSE IF Len(items) = 1 THEN items[1]
    ELSE items[1] \o sep \o JoinChars(Tail(items), sep)

(***************************************************************************)
(* Document reader (src/src/utils/document-reader.ts)                      *)
(***************************************************************************)
TruncatedMarker ==
    <<"\n","\n",".",".",".","[","t","r","u","n","c","a","t","e","d","]">>

\* the priority sections, each by the alternatives of its heading
PrioritySections ==
    <<
       << <<"E","x","e","c","u","t","i","v","e"," ","S","u","m","m","a","r","y">>,
         <<"O","v","e","r","v","i","e","w">>,
         <<"S","u","m","m","a","r","y">> >>,
       << <<"P","r","o","b","l","e","m">>,
         <<"P","r","o","b","l","e","m"," ","S","t","a","t","e","m","e","n","t">> >>,
       << <<"G","o","a","l","s">>,
         <<"O","b","j","e","c","t","i","v","e","s">>,
         <<"S","u","c","c","e","s","s"," ","M","e","t","r","i","c","s">> >>,
       << <<"R","e","q","u","i","r","e","m","e","n","t","s">>,
         <<"F","e","a","t","u","r","e","s">> >>,
       << <<"A","r","c","h","i","t","e","c","t","u","r","e">>,
         <<"S","y","s","t","e","m"," ","D","e","s","i","g","n">> >>,
       << <<"T","e","c","h"," ","S","t","a","c","k">>,
         <<"T","e","c","h","n","o","l","o","g","y">> >> >>

NoMatch == [found |-> FALSE]
Match(from, to) == [found |-> TRUE, from |-> from, to |-> to]

\* the text of a match
MatchText(s, m) == SubSeq(s, m.from, m.to)

\* /^#\s+.*$/m tried at position i
TitleMatchAt(s, i) ==
    IF LineStart(s, i) /\ StartsAt(s, i, <<"#">>) /\ i + 1 <= Len(s)
                       /\ s[i + 1] \in WhiteSpace
    THEN LET afterSpace == SkipClass(s, i + 1, WhiteSpace)
             lineEnd == FindClass(s, afterSpace, LineTerminators)
         IN Match(i, lineEnd - 1)
    ELSE NoMatch

\* String.prototype.match(/^#\s+.*$/m): the leftmost match
MatchTitle(s) ==
    IF \E i \in 1..Len(s) : TitleMatchAt(s, i).found
    THEN TitleMatchAt(s, CHOOSE i \in 1..Len(s) :
                            /\ TitleMatchAt(s, i).found
                            /\ \A k \in 1..(i - 1) : ~TitleMatchAt(s, k).found)
    ELSE NoMatch

\* the lookahead (?=^##|\Z) under the flags i and m: \Z is not an assertion of
\* this dialect, it is the letter Z
SectionEndsAt(s, j) ==
    \/ LineStart(s, j) /\ StartsAt(s, j, <<"#","#">>)
    \/ j <= Len(s) /\ toLowerCase(s[j]) = "z"

\* /^##\s+(A|B|...)[\s\S]*?(?=^##|\Z)/im tried at position i
SectionMatchAt(s, names, i) ==
    IF LineStart(s, i) /\ StartsAt(s, i, <<"#","#">>) /\ i + 2 <= Len(s)
                       /\ s[i + 2] \in WhiteSpace
    THEN LET name == SkipClass(s, i + 2, WhiteSpace)
         IN IF \E k \in 1..Len(names) : StartsAtIgnoreCase(s, name, names[k])
            THEN LET k == CHOOSE k \in 1..Len(names) :
                            /\ StartsAtIgnoreCase(s, name, names[k])
                            /\ \A l \in 1..(k - 1) :
                                   ~StartsAtIgnoreCase(s, name, names[l])
                     body == name + Len(names[k])
                 IN IF \E j \in body..Len(s) : SectionEndsAt(s, j)
                    THEN Match(i, (CHOOSE j \in body..Len(s) :
                                      /\ SectionEndsAt(s, j)
                                      /\ \A l \in body..(j - 1) :
                                             ~SectionEndsAt(s, l)) - 1)
                    ELSE NoMatch
            ELSE NoMatch
    ELSE NoMatch

\* String.prototype.match of a section pattern: the leftmost match
MatchSection(s, names) ==
    IF \E i \in 1..Len(s) : SectionMatchAt(s, names, i).found
    THEN SectionMatchAt(s, names,
                        CHOOSE i \in 1..Len(s) :
                            /\ SectionMatchAt(s, names, i).found
                            /\ \A k \in 1..(i - 1) :
                                   ~SectionMatchAt(s, names, k).found)
    ELSE NoMatch

\* the match of the p-th priority pattern (1: the main title)
MatchPriority(s, p) ==
    IF p = 1 THEN MatchTitle(s) ELSE MatchSection(s, PrioritySections[p - 1])

RECURSIVE CollectSections(_, _, _, _, _)
\* lines 206-215: the loop over the patterns from the p-th on
CollectSections(content, maxLength, p, sections, currentLength) ==
    IF p > Len(PrioritySections) + 1 THEN sections
    ELSE LET m == MatchPriority(content, p)
             section == Trim(MatchText(content, m))
         IN IF m.found /\ currentLength + Len(section) < maxLength
            THEN CollectSections(content, maxLength, p + 1,
                                 Append(sections, section),
                                 currentLength + Len(section))
            ELSE CollectSections(content, maxLength, p + 1, sections,
                                 currentLength)

extractKeySections(content, maxLength) ==
    IF Len(content) <= maxLength THEN content
    ELSE LET sections == CollectSections(content, maxLength, 1, <<>>, 0)
         IN IF Len(sections) = 0
            THEN SliceTo(content, maxLength) \o TruncatedMarker
            ELSE JoinChars(sections, <<"\n","\n">>)


\* path.basename: the part after the last separator
basename(path) ==
    IF \E i \in 1..Len(path) : path[i] = "/"
    THEN SubSeq(path, (CHOOSE i \in 1..Len(path) :
                          /\ path[i] = "/"
                          /\ \A k \in (i + 1)..Len(path) : path[k] # "/") + 1,
                Len(path))
    ELSE path

FileNotFound ==
    <<"F","i","l","e"," ","n","o","t"," ","f","o","u","n","d",":"," ">>
NotAFile ==
    <<"N","o","t"," ","a"," ","f","i","l","e",":"," ">>
PermissionDenied ==
    <<"E","A","C","C","E","S",":"," ","p","e","r","m","i","s","s","i","o",
      "n"," ","d","e","n","i","e","d">>

\* what the file system holds at a path
Missing == [kind |-> "missing"]
Directory == [kind |-> "directory"]
\* a regular file whose read throws
Unreadable == [kind |-> "unreadable"]
RegularFile(content) == [kind |-> "file", content |-> content]

\* readDocument(filePath): the DocumentContent record
readDocument(filePath, fs) ==
    LET filename == basename(filePath)
        entry == fs[filePath]
        failure(message) ==
            [path |-> filePath, filename |-> filename, content |-> <<>>,
             size |-> 0, success |-> FALSE, error |-> message]
    IN CASE entry.kind = "missing" -> failure(FileNotFound \o filePath)
         [] entry.kind = "directory" -> failure(NotAFile \o filePath)
         [] entry.kind = "unreadable" -> failure(PermissionDenied)
         [] OTHER ->
              [path |-> filePath, filename |-> filename,
               content |-> entry.content, size |-> Len(entry.content),
               success |-> TRUE]

\* lines 141-149: the results of readDocument, split by success
ReadAll(paths, fs) == [i \in 1..Len(paths) |-> readDocument(paths[i], fs)]

RECURSIVE Filter(_, _)
\* the elements with the given success flag, in order
Filter(results, flag) ==
    IF results = <<>> THEN <<>>
    ELSE IF Head(results).success = flag
         THEN <<Head(results)>> \o Filter(Tail(results), flag)
         ELSE Filter(Tail(results), flag)

SourceSeparator ==
    <<"\n","\n","-","-","-","\n">>
SourceTitle ==
    <<"#","#"," ","S","o","u","r","c","e",":"," ">>

RECURSIVE CombineDocuments(_)
\* lines 154-159
CombineDocuments(documents) ==
    IF documents = <<>> THEN <<>>
    ELSE SourceSeparator \o SourceTitle \o Head(documents).filename
         \o <<"\n","\n">> \o Trim(Head(documents).content) \o <<"\n">>
         \o CombineDocuments(Tail(documents))

\* mutant of readSourceDocuments: the first failure ends the loop
readSourceDocumentsStopping(paths, fs) ==
    LET results == ReadAll(paths, fs)
        failed == { i \in 1..Len(results) : ~results[i].success }
        last == IF failed = {} THEN Len(results)
                ELSE CHOOSE i \in failed : \A j \in failed : i <= j
        seen == SubSeq(results, 1, last)
        documents == Filter(seen, TRUE)
        combinedContent == CombineDocuments(documents)
    IN [documents |-> documents,
        errors |-> Filter(seen, FALSE),
        combinedContent |-> Trim(combinedContent),
        totalCharacters |-> Len(combinedContent)]

readSourceDocuments(paths, fs) ==
    LET results == ReadAll(paths, fs)
        documents == Filter(results, TRUE)
        combinedContent == CombineDocuments(documents)
    IN [documents |-> documents,
        errors |-> Filter(results, FALSE),
        combinedContent |-> Trim(combinedContent),
        totalCharacters |-> Len(combinedContent)]

(***************************************************************************)
(* Context builder (src/src/utils/context-builder.ts)                      *)
(***************************************************************************)
\* the characters of a property name
PropertyName(key) ==
    CASE key = "problem" -> <<"p","r","o","b","l","e","m">>
      [] key = "mvpScope" -> <<"m","v","p","S","c","o","p","e">>
      [] key = "targetUser" -> <<"t","a","r","g","e","t","U","s","e","r">>
      [] key = "team_notes" -> <<"t","e","a","m","_","n","o","t","e","s">>
      [] key = "zeta" -> <<"z","e","t","a">>
      [] key = "alpha" -> <<"a","l","p","h","a">>

RECURSIVE SpaceBeforeUpperCase(_)
\* .replace(/([A-Z])/g, ' $1')
SpaceBeforeUpperCase(s) ==
    IF s = <<>> THEN <<>>
    ELSE (IF Head(s) \in Range(UpperCase) THEN <<" ", Head(s)>> ELSE <<Head(s)>>)
         \o SpaceBeforeUpperCase(Tail(s))

\* .replace(/_/g, ' ')
UnderscoresToSpaces(s) == [i \in 1..Len(s) |-> IF s[i] = "_" THEN " " ELSE s[i]]

\* .replace(/\b\w/g, c => c.toUpperCase())
CapitalizeWords(s) ==
    [i \in 1..Len(s) |->
        IF WordChar(s[i]) /\ (i = 1 \/ ~WordChar(s[i - 1]))
        THEN toUpperCase(s[i]) ELSE s[i]]

formatKey(key) ==
    Trim(CapitalizeWords(UnderscoresToSpaces(SpaceBeforeUpperCase(key))))

ProjectHeading ==
    <<"#","#"," ","P","r","o","j","e","c","t",":"," ">>
UserContextHeading ==
    <<"#","#"," ","U","s","e","r","-","P","r","o","v","i","d","e","d"," ",
      "C","o","n","t","e","x","t","\n","\n">>
ReferenceDocumentsHeading ==
    <<"#","#"," ","R","e","f","e","r","e","n","c","e"," ","D","o","c","u",
      "m","e","n","t","s","\n">>
SourceHeading ==
    <<"\n","#","#","#"," ","S","o","u","r","c","e",":"," ">>
InterviewAnswersHeading ==
    <<"#","#"," ","I","n","t","e","r","v","i","e","w"," ","A","n","s","w",
      "e","r","s","\n","\n">>
TechStackHeading ==
    <<"#","#"," ","T","e","c","h"," ","S","t","a","c","k","\n","\n">>
RequirementsHeading ==
    <<"#","#"," ","R","e","q","u","i","r","e","m","e","n","t","s","\n",
      "\n">>
TeamContextHeading ==
    <<"#","#"," ","T","e","a","m"," ","C","o","n","t","e","x","t","\n",
      "\n">>
ContextTruncatedMarker ==
    <<"\n","\n",".",".",".","[","c","o","n","t","e","x","t"," ","t","r","u",
      "n","c","a","t","e","d","]">>

DefaultMaxLength == 12000
DefaultMaxPerDocument == 4000

\* lines 179-184
allKnownQuestions ==
    <<"problem", "targetUser", "successMetrics", "mvpScope", "businessContext",
      "architecture", "security", "scale", "deployment", "integrations",
      "renderingStrategy", "stateManagement", "bundleStrategy",
      "performanceTargets", "accessibility",
      "sprintPlanning", "definitionOfDone", "technicalConstraints">>

\* v && v.trim()
Answered(v) == Truthy(v) /\ Len(Trim(v.chars)) > 0

\* `**${formatKey(key)}:**\n${value.trim()}\n\n`
AnswerText(key, value) ==
    <<"*","*">> \o formatKey(PropertyName(key)) \o <<":","*","*","\n">>
    \o Trim(value.chars) \o <<"\n","\n">>

\* mutant of KnownAnswers: the known questions in the order of the object
KnownAnswersInObjectOrder(entries, keys) ==
    SelectSeq([i \in 1..Len(entries) |-> entries[i].key],
              LAMBDA k : k \in Range(keys) /\ Answered(GetKey(entries, k)))

RECURSIVE KnownAnswers(_, _)
\* lines 187-193: the keys of the known questions that are answered
KnownAnswers(entries, keys) ==
    IF keys = <<>> THEN <<>>
    ELSE (IF Answered(GetKey(entries, Head(keys))) THEN <<Head(keys)>> ELSE <<>>)
         \o KnownAnswers(entries, Tail(keys))

RECURSIVE CustomAnswers(_)
\* lines 196-201: the other answered keys, in the order of the object
CustomAnswers(entries) ==
    IF entries = <<>> THEN <<>>
    ELSE (IF Head(entries).key \notin Range(allKnownQuestions)
             /\ Answered(Head(entries).value)
          THEN <<Head(entries).key>> ELSE <<>>)
         \o CustomAnswers(Tail(entries))

RECURSIVE AnswersText(_, _)
AnswersText(entries, keys) ==
    IF keys = <<>> THEN <<>>
    ELSE AnswerText(Head(keys), GetKey(entries, Head(keys)))
         \o AnswersText(entries, Tail(keys))

RECURSIVE DocumentsText(_, _)
\* lines 150-161
DocumentsText(documents, maxPerDocument) ==
    IF documents = <<>> THEN <<>>
    ELSE LET doc == Head(documents)
             docContent == IF Len(doc.content) > maxPerDocument
                           THEN extractKeySections(doc.content, maxPerDocument)
                           ELSE doc.content
         IN SourceHeading \o doc.filename \o <<"\n","\n">> \o Trim(docContent)
            \o <<"\n">> \o DocumentsText(Tail(documents), maxPerDocument)

\* lines 233-235
TeamInfo(tc) ==
    (IF Truthy(tc.velocity)
     THEN << <<"V","e","l","o","c","i","t","y",":"," ">> \o NumberToString(tc.velocity.num)
            \o <<" ","p","o","i","n","t","s","/","s","p","r","i","n","t">> >>
     ELSE <<>>)
    \o (IF Truthy(tc.sprintDuration)
        THEN << <<"S","p","r","i","n","t",":"," ">> \o NumberToString(tc.sprintDuration.num)
               \o <<" ","w","e","e","k","s">> >>
        ELSE <<>>)
    \o (IF Truthy(tc.teamSize)
        THEN << <<"T","e","a","m"," ","S","i","z","e",":"," ">> \o NumberToString(tc.teamSize.num)
               \o <<" ","e","n","g","i","n","e","e","r","s">> >>
        ELSE <<>>)


\* the context before truncation, with the lists built along the way
ContextParts(c, options, fs) ==
    LET maxPerDocument == IF options.maxPerDocument = Undefined
                          THEN DefaultMaxPerDocument
                          ELSE options.maxPerDocument.num
        includeSourceDocs == IF options.includeSourceDocs = Undefined THEN TRUE
                             ELSE options.includeSourceDocs.bool
        hasUserContext == Truthy(c.context) /\ Len(Trim(c.context.chars)) > 0
        readsDocuments == /\ includeSourceDocs
                          /\ Truthy(c.sourceDocuments)
                          /\ Len(c.sourceDocuments.items) > 0
        docsResult == readSourceDocuments(
                         [i \in 1..Len(c.sourceDocuments.items) |->
                             c.sourceDocuments.items[i].chars], fs)
        hasDocuments == readsDocuments /\ Len(docsResult.documents) > 0
        entries == c.interviewAnswers.entries
        hasAnswers == /\ Truthy(c.interviewAnswers)
                      /\ \E i \in 1..Len(entries) : Answered(entries[i].value)
        answeredQuestions ==
            IF hasAnswers
            THEN KnownAnswers(entries, allKnownQuestions) \o CustomAnswers(entries)
            ELSE <<>>
        hasTechStack == Truthy(c.techStack) /\ Len(c.techStack.items) > 0
        hasRequirements == /\ Truthy(c.requirements)
                           /\ Len(c.requirements.items) > 0
                           /\ "mvpScope" \notin Range(answeredQuestions)
        teamInfo == IF Truthy(c.teamContext) THEN TeamInfo(c.teamContext) ELSE <<>>
    IN [context |->
            ProjectHeading \o c.projectName.chars \o <<"\n","\n">>
            \o (IF hasUserContext
                THEN UserContextHeading \o Trim(c.context.chars) \o <<"\n","\n">>
                ELSE <<>>)
            \o (IF hasDocuments
                THEN ReferenceDocumentsHeading
                     \o DocumentsText(docsResult.documents, maxPerDocument)
                     \o <<"\n">>
                ELSE <<>>)
            \o (IF hasAnswers
                THEN InterviewAnswersHeading \o AnswersText(entries, answeredQuestions)
                ELSE <<>>)
            \o (IF hasTechStack
                THEN TechStackHeading \o Join(c.techStack.items, <<",", " ">>)
                     \o <<"\n","\n">>
                ELSE <<>>)
            \o (IF hasRequirements
                THEN RequirementsHeading
                     \o JoinChars([i \in 1..Len(c.requirements.items) |->
                                      <<"-", " ">> \o c.requirements.items[i].chars],
                                  <<"\n">>)
                     \o <<"\n","\n">>
                ELSE <<>>)
            \o (IF teamInfo # <<>>
                THEN TeamContextHeading \o JoinChars(teamInfo, <<" ","|"," ">>)
                     \o <<"\n","\n">>
                ELSE <<>>),
        sections |->
            <<"Project Header">>
            \o (IF hasUserContext THEN <<"User Context">> ELSE <<>>)
            \o (IF hasDocuments THEN <<"Reference Documents">> ELSE <<>>)
            \o (IF hasAnswers THEN <<"Interview Answers">> ELSE <<>>)
            \o (IF hasTechStack THEN <<"Tech Stack">> ELSE <<>>)
            \o (IF hasRequirements THEN <<"Requirements">> ELSE <<>>)
            \o (IF teamInfo # <<>> THEN <<"Team Context">> ELSE <<>>),
        sourceDocuments |->
            IF hasDocuments
            THEN [i \in 1..Len(docsResult.documents) |->
                     docsResult.documents[i].filename]
            ELSE <<>>,
        answeredQuestions |-> answeredQuestions]

\* lines 248-260: the truncation and the record returned
BuiltContext(parts, maxLength) ==
    LET truncated == Len(parts.context) > maxLength
        context == IF truncated
                   THEN SliceTo(parts.context, maxLength) \o ContextTruncatedMarker
                   ELSE parts.context
    IN [promptContext |-> Trim(context),
        length |-> Len(context),
        sections |-> parts.sections,
        sourceDocuments |-> parts.sourceDocuments,
        answeredQuestions |-> parts.answeredQuestions,
        truncated |-> truncated]

\* buildPromptContext(config, options): the BuiltContext record
buildPromptContext(c, options, fs) ==
    BuiltContext(ContextParts(c, options, fs),
                 IF options.maxLength = Undefined THEN DefaultMaxLength
                 ELSE options.maxLength.num)


(***************************************************************************)
(* Calls of the context builder and of the document reader                 *)
(***************************************************************************)
PathA ==
    <<"a",".","m","d">>
PathB ==
    <<"d","o","c","s","/","b",".","m","d">>
ShortDocument ==
    <<"h","i","\n">>
LongDocument ==
    <<"#"," ","T","\n","#","#"," ","G","o","a","l","s","\n","a","b","\n",
      "#","#"," ","P","r","o","b","l","e","m"," ","S","t","a","t","e","m",
      "e","n","t","\n","a","b","c">>

Paths == {PathA, PathB}

\* the lists of at most n paths
PathLists(n) == UNION { [1..k -> Paths] : k \in 0..n }

\* both documents exist and can be read
ReadableFiles ==
    (PathA :> RegularFile(ShortDocument)) @@ (PathB :> RegularFile(LongDocument))

FileStates ==
    { Missing, Directory, Unreadable,
      RegularFile(ShortDocument), RegularFile(LongDocument) }

FileSystems == [Paths -> FileStates]

StringArray(list) == Arr([i \in 1..Len(list) |-> Str(list[i])])

TeamContextValues ==
    { Undefined,
      [type |-> "object", velocity |-> Num(20), sprintDuration |-> Undefined,
       teamSize |-> Num(0)] }

\* normalized configs as the context builder receives them
ContextConfigs ==
    [projectName : {Str(Demo)},
     context : {Undefined, Str(BuildX)},
     sourceDocuments : {Undefined, StringArray(<<PathA>>),
                        StringArray(<<PathA, PathB>>)},
     interviewAnswers :
        {Undefined,
         Obj(<<[key |-> "problem", value |-> Str(<<"p">>)]>>),
         Obj(<<[key |-> "team_notes", value |-> Str(<<"n">>)],
               [key |-> "mvpScope", value |-> Str(<<"m"," ">>)]>>)},
     techStack : {Undefined, StringArray(<< <<"R","e","a","c","t">>, <<"N">> >>)},
     requirements : {Undefined, StringArray(<< <<"r","1">> >>)},
     teamContext : TeamContextValues]

ContextOptions ==
    [maxLength : {Undefined, Num(0), Num(40), Num(200)},
     maxPerDocument : {Undefined, Num(10)},
     includeSourceDocs : {Undefined, Bool(FALSE)}]

\* calls of buildPromptContext where every source document is readable
ContextCalls ==
    [fn : {"buildPromptContext"}, config : ContextConfigs,
     options : ContextOptions, fs : {ReadableFiles}]

\* a config that names source documents and nothing else
DocumentsConfig(paths) ==
    [projectName |-> Str(Demo), context |-> Undefined,
     sourceDocuments |-> StringArray(paths), interviewAnswers |-> Undefined,
     techStack |-> Undefined, requirements |-> Undefined,
     teamContext |-> Undefined]

\* calls of readSourceDocuments, and of buildPromptContext, on any file system
ReaderCalls ==
    [fn : {"readSourceDocuments"}, paths : PathLists(MaxDocuments),
     fs : FileSystems]
    \cup
    [fn : {"buildPromptContext"},
     config : { DocumentsConfig(paths) : paths \in PathLists(MaxDocuments) },
     options : [maxLength : {Undefined, Num(30)}, maxPerDocument : {Undefined},
                includeSourceDocs : {Undefined}],
     fs : FileSystems]

\* buildPromptContext is called and returns
BuildPromptContext ==
    /\ call.fn = "buildPromptContext" /\ ret = Pending
    /\ ret' = buildPromptContext(call.config, call.options, call.fs)
    /\ UNCHANGED <<call, plannerVars, pipelineVars, sessionVars, runs>>

\* readSourceDocuments is called and returns
ReadSourceDocuments ==
    /\ call.fn = "readSourceDocuments" /\ ret = Pending
    /\ ret' = readSourceDocuments(call.paths, call.fs)
    /\ UNCHANGED <<call, plannerVars, pipelineVars, sessionVars, runs>>


PrdExcerptLimit == 4000

\* lines 335-338 of buildTDRPrompt: the PRD text placed in the TDR prompt
truncatedPRD(prdContent) ==
    IF Len(prdContent) > PrdExcerptLimit
    THEN extractKeySections(prdContent, PrdExcerptLimit)
    ELSE prdContent

\* buildTDRPrompt(config, prdContent): the texts placed in the template
buildTDRPrompt(c, prdContent, options, fs) ==
    [promptContext |-> buildPromptContext(c, options, fs).promptContext,
     prdContext |-> IF Truthy(prdContent) THEN Str(truncatedPRD(prdContent.chars))
                    ELSE Undefined]

(***************************************************************************)
(* Calls of extractKeySections and of buildTDRPrompt                       *)
(***************************************************************************)
\* the lines Markdown texts are made of
MarkdownLines ==
    { <<"#"," ","T">>,
      <<"#","#"," ","P","r","o","b","l","e","m"," ","S","t","a","t","e","m","e","n","t">>,
      <<"#","#"," ","G","o","a","l","s">>,
      <<"#","#","#"," ","S","u","b">>,
      <<"a","b","c">>,
      <<"a"," ","z">> }

\* the lists of at most n lines
LineLists(n) == UNION { [1..k -> MarkdownLines] : k \in 0..n }

\* the texts of at most n lines
Texts(n) == { JoinChars(lines, <<"\n">>) : lines \in LineLists(n) }

\* a paragraph of n characters
Filler(n) == [i \in 1..n |-> "a"]

\* texts around the excerpt limit: a line, a long paragraph, a line
LongTexts ==
    { JoinChars(before \o <<Filler(n)>> \o after, <<"\n">>) :
        before \in LineLists(1), after \in LineLists(1),
        n \in {PrdExcerptLimit - 25, PrdExcerptLimit - 10, PrdExcerptLimit + 1} }

ExtractCalls ==
    [fn : {"extractKeySections"}, content : Texts(MaxLines),
     maxLength : {12, 40}]
    \cup
    [fn : {"buildTDRPrompt"}, config : {DocumentsConfig(<<>>)},
     prdContent : { Str(t) : t \in LongTexts },
     options : [maxLength : {Undefined}, maxPerDocument : {Undefined},
                includeSourceDocs : {Undefined}],
     fs : {ReadableFiles}]

\* extractKeySections is called and returns
ExtractKeySections ==
    /\ call.fn = "extractKeySections" /\ ret = Pending
    /\ ret' = extractKeySections(call.content, call.maxLength)
    /\ UNCHANGED <<call, plannerVars, pipelineVars, sessionVars, runs>>

\* buildTDRPrompt is called and returns
BuildTDRPrompt ==
    /\ call.fn = "buildTDRPrompt" /\ ret = Pending
    /\ ret' = buildTDRPrompt(call.config, call.prdContent, call.options, call.fs)
    /\ UNCHANGED <<call, plannerVars, pipelineVars, sessionVars, runs>>


(***************************************************************************)
(* Summary metrics (src/cli/architect-auto.ts, lines 502-513; the same in  *)
(* generateStoriesStep, lines 434-445, where the points pattern has no i   *)
(* flag)                                                                   *)
(***************************************************************************)
EpicToken ==
    <<"E","P","I","C","-">>
StoryToken ==
    <<"U","S","-">>
StoryPointsLabel ==
    <<"S","t","o","r","y"," ","P","o","i","n","t","s",":">>

DefaultEpicsCount == 3
DefaultStoriesCount == 10
DefaultPointsPerStory == 5

\* word, then \s* if `spaces`, then \d+, tried at position i: the position
\* after the match, 0 if there is no match
TokenEndAt(s, i, word, ignoreCase, spaces) ==
    IF (IF ignoreCase THEN StartsAtIgnoreCase(s, i, word) ELSE StartsAt(s, i, word))
    THEN LET afterWord == i + Len(word)
             digits == IF spaces THEN SkipClass(s, afterWord, WhiteSpace)
                       ELSE afterWord
             end == SkipClass(s, digits, Digits)
         IN IF end > digits THEN end ELSE 0
    ELSE 0

RECURSIVE MatchAll(_, _, _, _, _)
\* String.prototype.match with the g flag: the matches from position i on
MatchAll(s, i, word, ignoreCase, spaces) ==
    IF \E j \in i..Len(s) : TokenEndAt(s, j, word, ignoreCase, spaces) # 0
    THEN LET j == CHOOSE j \in i..Len(s) :
                    /\ TokenEndAt(s, j, word, ignoreCase, spaces) # 0
                    /\ \A k \in i..(j - 1) :
                          TokenEndAt(s, k, word, ignoreCase, spaces) = 0
             end == TokenEndAt(s, j, word, ignoreCase, spaces)
         IN <<SubSeq(s, j, end - 1)>> \o MatchAll(s, end, word, ignoreCase, spaces)
    ELSE <<>>

\* match.replace(/\D/g, '')
DigitsOf(s) == LET IsDigit(ch) == ch \in Digits IN SelectSeq(s, IsDigit)

RECURSIVE SumPoints(_)
\* the reduce of lines 509-512
SumPoints(matches) ==
    IF matches = <<>> THEN 0
    ELSE ParseDigits(DigitsOf(Head(matches))) + SumPoints(Tail(matches))

\* mutant of SummaryMetrics: every match is counted, repeated or not
SummaryMetricsCountingMatches(text, ignoreCase) ==
    LET epicsMatch == MatchAll(text, 1, EpicToken, FALSE, FALSE)
        storiesMatch == MatchAll(text, 1, StoryToken, FALSE, FALSE)
        pointsMatches == MatchAll(text, 1, StoryPointsLabel, ignoreCase, TRUE)
        storiesCount == IF storiesMatch # <<>> THEN Len(storiesMatch)
                        ELSE DefaultStoriesCount
    IN [epics |-> IF epicsMatch # <<>> THEN Len(epicsMatch)
                  ELSE DefaultEpicsCount,
        stories |-> storiesCount,
        totalPoints |-> IF pointsMatches # <<>> THEN SumPoints(pointsMatches)
                        ELSE storiesCount * DefaultPointsPerStory]

\* the summary of a Stories text; ignoreCase: the flag of the points pattern
SummaryMetrics(text, ignoreCase) ==
    LET epicsMatch == MatchAll(text, 1, EpicToken, FALSE, FALSE)
        storiesMatch == MatchAll(text, 1, StoryToken, FALSE, FALSE)
        pointsMatches == MatchAll(text, 1, StoryPointsLabel, ignoreCase, TRUE)
        storiesCount == IF storiesMatch # <<>> THEN Cardinality(Range(storiesMatch))
                        ELSE DefaultStoriesCount
    IN [epics |-> IF epicsMatch # <<>> THEN Cardinality(Range(epicsMatch))
                  ELSE DefaultEpicsCount,
        stories |-> storiesCount,
        totalPoints |-> IF pointsMatches # <<>> THEN SumPoints(pointsMatches)
                        ELSE storiesCount * DefaultPointsPerStory]

\* the lines Stories texts are made of
StoriesLines ==
    { <<"E","P","I","C","-","1"," ","E","P","I","C","-","1","2"," ","E","P","I","C","-","1">>,
      <<"#","#","#"," ","U","S","-","1",":"," ","A">>,
      <<"U","S","-","1",","," ","U","S","-","2">>,
      <<"S","t","o","r","y"," ","P","o","i","n","t","s",":"," ","3">>,
      <<"s","t","o","r","y"," ","p","o","i","n","t","s",":"," "," ","1","3">>,
      <<"N","o","t","e","s">> }

StoriesTexts(n) ==
    { JoinChars(lines, <<"\n">>) : lines \in UNION { [1..k -> StoriesLines] : k \in 0..n } }

MetricsCalls ==
    [fn : {"SummaryMetrics"}, text : StoriesTexts(MaxLines),
     runner : {"cli", "workflow"}]

\* the metrics are extracted from the Stories text
CalculateSummaryMetrics ==
    /\ call.fn = "SummaryMetrics" /\ ret = Pending
    /\ ret' = SummaryMetrics(call.text, call.runner = "cli")
    /\ UNCHANGED <<call, plannerVars, pipelineVars, sessionVars, runs>>


(***************************************************************************)
(* Jira CSV (src/cli/architect-auto.ts, lines 295-355, the same function   *)
(* in src/unnamed/part_005, lines 16-84; the workflow's own copy is        *)
(* document-architect-pipeline.ts, lines 550-613)                          *)
(***************************************************************************)
HeadingMarks ==
    <<"#","#","#">>
PriorityLabel ==
    <<"P","r","i","o","r","i","t","y",":">>
DefaultPriority ==
    <<"P","1">>
DefaultPoints ==
    <<"5">>
Highest ==
    <<"H","i","g","h","e","s","t">>
High ==
    <<"H","i","g","h">>
Medium ==
    <<"M","e","d","i","u","m">>
IssueType ==
    <<"S","t","o","r","y">>
AutoGenerated ==
    <<"a","u","t","o","-","g","e","n","e","r","a","t","e","d">>
InitialSetup ==
    <<"I","n","i","t","i","a","l"," ","S","e","t","u","p">>
PlaceholderPoints ==
    <<"3">>
GeneratedFrom ==
    <<"G","e","n","e","r","a","t","e","d"," ","f","r","o","m"," ">>
Documentation ==
    <<" ","d","o","c","u","m","e","n","t","a","t","i","o","n">>
ReviewFor ==
    <<"R","e","v","i","e","w"," ","g","e","n","e","r","a","t","e","d"," ",
      "d","o","c","u","m","e","n","t","a","t","i","o","n"," ","f","o","r",
      " ">>
Quote ==
    <<"\"">>

\* the headers of lines 296-303
Headers ==
    << <<"I","s","s","u","e"," ","T","y","p","e">>,
       <<"S","u","m","m","a","r","y">>,
       <<"D","e","s","c","r","i","p","t","i","o","n">>,
       <<"P","r","i","o","r","i","t","y">>,
       <<"S","t","o","r","y"," ","P","o","i","n","t","s">>,
       <<"L","a","b","e","l","s">> >>

\* the seventh header of the workflow's copy (line 558)
EpicLinkHeader ==
    <<"E","p","i","c"," ","L","i","n","k">>

\* storyPattern tried at position i: NoMatch, or the identifier, the title
\* and the position after the match
StoryHeadingAt(s, i) ==
    IF ~StartsAt(s, i, HeadingMarks) THEN NoMatch
    ELSE
    LET spaces == i + Len(HeadingMarks)
        id == SkipClass(s, spaces, WhiteSpace)
        digits == id + Len(StoryToken)
        colon == SkipClass(s, digits, Digits)
        last == SkipClass(s, colon + 1, WhiteSpace)
        \* (.+?)(?=\n) from position p: the first line terminator after p
        LineEnd(p) == FindClass(s, p + 1, LineTerminators)
        TitleFrom(p) ==
            /\ p <= Len(s)
            /\ s[p] \notin LineTerminators
            /\ LineEnd(p) <= Len(s)
            /\ s[LineEnd(p)] = "\n"
    IN IF /\ id > spaces
          /\ StartsAt(s, id, StoryToken)
          /\ colon > digits
          /\ colon <= Len(s)
          /\ s[colon] = ":"
          \* \s* is greedy and gives back one character at a time
          /\ \E p \in (colon + 1)..last : TitleFrom(p)
       THEN LET p == CHOOSE p \in (colon + 1)..last :
                        /\ TitleFrom(p)
                        /\ \A k \in (p + 1)..last : ~TitleFrom(k)
            IN [found |-> TRUE,
                storyId |-> SubSeq(s, id, colon - 1),
                title |-> SubSeq(s, p, LineEnd(p) - 1),
                end |-> LineEnd(p)]
       ELSE NoMatch

RECURSIVE StoryHeadings(_, _)
\* storiesContent.matchAll(storyPattern) from position i on
StoryHeadings(s, i) ==
    IF \E j \in i..Len(s) : StoryHeadingAt(s, j).found
    THEN LET j == CHOOSE j \in i..Len(s) :
                    /\ StoryHeadingAt(s, j).found
                    /\ \A k \in i..(j - 1) : ~StoryHeadingAt(s, k).found
             m == StoryHeadingAt(s, j)
         IN <<m>> \o StoryHeadings(s, m.end)
    ELSE <<>>

\* label, \s*, then one character of the class, tried at position i under
\* the i flag: the position of that character, 0 if there is no match
LabelValueAt(s, i, label, class) ==
    IF StartsAtIgnoreCase(s, i, label)
    THEN LET value == SkipClass(s, i + Len(label), WhiteSpace)
         IN IF value <= Len(s) /\ s[value] \in class THEN value ELSE 0
    ELSE 0

\* P[012] under the i flag, tried at position i
PriorityAt(s, i) ==
    LET letter == LabelValueAt(s, i, PriorityLabel, {"P", "p"})
    IN IF letter # 0 /\ letter < Len(s) /\ s[letter + 1] \in {"0", "1", "2"}
       THEN letter ELSE 0

\* `${storyId}[\s\S]*?Priority:\s*(P[012])`: the captured text, or Undefined
PriorityOf(s, storyId) ==
    LET Occurs(j) == StartsAtIgnoreCase(s, j, storyId)
    IN IF \E j \in 1..Len(s) : Occurs(j)
       THEN LET j == CHOOSE j \in 1..Len(s) :
                        Occurs(j) /\ \A k \in 1..(j - 1) : ~Occurs(k)
                from == j + Len(storyId)
            IN IF \E p \in from..Len(s) : PriorityAt(s, p) # 0
               THEN LET p == CHOOSE p \in from..Len(s) :
                                /\ PriorityAt(s, p) # 0
                                /\ \A k \in from..(p - 1) : PriorityAt(s, k) = 0
                        letter == PriorityAt(s, p)
                    IN Str(SubSeq(s, letter, letter + 1))
               ELSE Undefined
       ELSE Undefined

\* `${storyId}[\s\S]*?Story Points:\s*(\d+)`: the captured text, or Undefined
PointsOf(s, storyId) ==
    LET Occurs(j) == StartsAtIgnoreCase(s, j, storyId)
    IN IF \E j \in 1..Len(s) : Occurs(j)
       THEN LET j == CHOOSE j \in 1..Len(s) :
                        Occurs(j) /\ \A k \in 1..(j - 1) : ~Occurs(k)
                from == j + Len(storyId)
                At(p) == LabelValueAt(s, p, StoryPointsLabel, Digits)
            IN IF \E p \in from..Len(s) : At(p) # 0
               THEN LET p == CHOOSE p \in from..Len(s) :
                                At(p) # 0 /\ \A k \in from..(p - 1) : At(k) = 0
                    IN Str(SubSeq(s, At(p), SkipClass(s, At(p), Digits) - 1))
               ELSE Undefined
       ELSE Undefined

\* line 324
JiraPriority(priority) ==
    IF priority = <<"P","0">> THEN Highest
    ELSE IF priority = DefaultPriority THEN High
    ELSE Medium

\* `[${projectKey}] ${title}`
Summary(projectKey, title) == <<"[">> \o projectKey \o <<"]", " ">> \o title

\* the row of one heading (lines 311-334)
StoryRow(s, m, projectKey, projectName) ==
    LET priorityMatch == PriorityOf(s, m.storyId)
        priority == IF priorityMatch # Undefined THEN priorityMatch.chars
                    ELSE DefaultPriority
        pointsMatch == PointsOf(s, m.storyId)
        points == IF pointsMatch # Undefined THEN pointsMatch.chars
                  ELSE DefaultPoints
    IN << IssueType,
          Summary(projectKey, Trim(m.title)),
          GeneratedFrom \o projectName \o Documentation,
          JiraPriority(priority),
          points,
          AutoGenerated >>

\* the rows before they are written (lines 305-346)
JiraRows(s, projectKey, projectName) ==
    LET matches == StoryHeadings(s, 1)
    IN IF matches = <<>>
       THEN << << IssueType,
                  Summary(projectKey, InitialSetup),
                  ReviewFor \o projectName,
                  High,
                  PlaceholderPoints,
                  AutoGenerated >> >>
       ELSE [k \in 1..Len(matches) |->
                StoryRow(s, matches[k], projectKey, projectName)]

RECURSIVE DoubleQuotes(_)
\* cell.replace(/"/g, '""')
DoubleQuotes(cell) ==
    IF cell = <<>> THEN <<>>
    ELSE (IF Head(cell) = "\"" THEN Quote \o Quote ELSE <<Head(cell)>>)
         \o DoubleQuotes(Tail(cell))

\* `"${cell.replace(/"/g, '""')}"`
QuoteCell(cell) == Quote \o DoubleQuotes(cell) \o Quote

\* lines 349-352
BuildCSV(headers, rows) ==
    JoinChars(<<JoinChars(headers, <<",">>)>>
              \o [k \in 1..Len(rows) |->
                    JoinChars([c \in 1..Len(rows[k]) |-> QuoteCell(rows[k][c])],
                              <<",">>)],
              <<"\n">>)

\* generateJiraCSV of the CLI and of the shared utilities
generateJiraCSV(storiesContent, projectKey, projectName) ==
    BuildCSV(Headers, JiraRows(storiesContent, projectKey, projectName))

\* generateJiraCSV of the workflow: an Epic Link column, always empty
generateJiraCSVWorkflow(storiesContent, projectKey, projectName) ==
    LET rows == JiraRows(storiesContent, projectKey, projectName)
    IN BuildCSV(Append(Headers, EpicLinkHeader),
                [k \in 1..Len(rows) |-> Append(rows[k], <<>>)])

\* the story blocks Stories documents are made of: a heading, the priority
\* and points lines, and the stories the block depends on
StoryNumbers == {"1", "2"}
StoryTitles ==
    { <<"L","o","g","i","n">>,
      <<"S","a","y"," ","\"","h","i","\"",","," ","t","w","i","c","e">> }
StoryBlocks ==
    { b \in [number : StoryNumbers, title : StoryTitles,
             priority : {"0", "1", "2"}, points : {"3", "8"},
             blockedBy : StoryNumbers \cup {"none"}] :
        b.blockedBy # b.number }

\* up to n blocks with different numbers
BlockLists(n) ==
    { blocks \in UNION { [1..k -> StoryBlocks] : k \in 1..n } :
        \A i, j \in DOMAIN blocks : blocks[i].number = blocks[j].number => i = j }

BlockMarkdown(b) ==
    <<"#","#","#"," ","U","S","-">> \o <<b.number>> \o <<":", " ">> \o b.title \o <<"\n">>
    \o <<"P","r","i","o","r","i","t","y",":"," ","P">> \o <<b.priority, "\n">>
    \o <<"S","t","o","r","y"," ","P","o","i","n","t","s",":"," ">> \o <<b.points, "\n">>
    \o (IF b.blockedBy = "none" THEN <<>>
        ELSE <<"B","l","o","c","k","e","d"," ","b","y",":"," ","U","S","-">> \o <<b.blockedBy, "\n">>)

RECURSIVE BlocksMarkdown(_)
BlocksMarkdown(blocks) ==
    IF blocks = <<>> THEN <<>>
    ELSE BlockMarkdown(Head(blocks)) \o BlocksMarkdown(Tail(blocks))

\* the overview line some documents start with
StoriesOverview ==
    <<"S","t","o","r","i","e","s",":"," ","U","S","-","1",","," ","U","S","-","2","\n">>

StoriesDocuments ==
    { (IF overview THEN StoriesOverview ELSE <<>>) \o BlocksMarkdown(blocks) :
        overview \in BOOLEAN, blocks \in BlockLists(MaxBlocks) }

\* texts without a story heading of three marks
PlainTexts ==
    { <<>>,
      <<"#"," ","S","t","o","r","i","e","s","\n","N","o","t","e","s","\n">>,
      <<"#","#"," ","U","S","-","1",":"," ","L","o","g","i","n","\n">> }

JiraProjectName ==
    <<"M","y"," ","\"","A","p","p","\"">>

JiraCalls ==
    [fn : {"generateJiraCSV"},
     storiesContent : StoriesDocuments \cup PlainTexts,
     projectKey : {DemoKey}, projectName : {JiraProjectName},
     runner : {"cli", "workflow"}]

\* the CLI writes the export
GenerateJiraCSV ==
    /\ call.fn = "generateJiraCSV" /\ call.runner = "cli" /\ ret = Pending
    /\ ret' = generateJiraCSV(call.storiesContent, call.projectKey,
                              call.projectName)
    /\ UNCHANGED <<call, plannerVars, pipelineVars, sessionVars, runs>>

\* exportAndSaveStep writes the export
WorkflowGenerateJiraCSV ==
    /\ call.fn = "generateJiraCSV" /\ call.runner = "workflow" /\ ret = Pending
    /\ ret' = generateJiraCSVWorkflow(call.storiesContent, call.projectKey,
                                      call.projectName)
    /\ UNCHANGED <<call, plannerVars, pipelineVars, sessionVars, runs>>


(***************************************************************************)
(* Calls of normalizeConfig (src/src/types/config.ts, lines 287-343)       *)
(***************************************************************************)
MvpScopeAnswers ==
    { Undefined,
      Obj(<<>>),
      Obj(<<[key |-> "problem", value |-> Str(<<"p">>)]>>),
      Obj(<<[key |-> "mvpScope", value |-> Str(<<>>)]>>),
      Obj(<<[key |-> "mvpScope", value |-> Str(<<"m","i","n","e">>)]>>) }

RawConfigs ==
    [projectName : { Undefined, Str(Demo) },
     context : { Undefined, Str(<<>>), Str(BuildX) },
     sourceDocuments : { Undefined, Arr(<<Str(PathA)>>) },
     interviewAnswers : MvpScopeAnswers,
     mode : { Undefined, Str(<<"A","L","L">>) },
     techStack : { Undefined, Arr(<<Str(<<"R","e","a","c","t">>)>>) },
     hasFrontend : { Undefined, Bool(TRUE) },
     teamContext : TeamContextValues,
     jiraProjectKey : { Undefined, Str(DemoKey) },
     author : { Undefined, Str(<<"A","n","n">>) },
     description : DescriptionValues,
     requirements : RequirementsValues \cup { Arr(<<>>) }]

\* input is the argument as it was passed, object the state of the object
\* that was passed
NormalizeCalls ==
    { [fn |-> "normalizeConfig", input |-> c, object |-> c,
       normalized |-> Pending] : c \in RawConfigs }

\* the raw config is normalized
NormalizeConfig ==
    /\ call.fn = "normalizeConfig" /\ ret = Pending
    /\ ret' = normalizeConfig(call.input)
    /\ call' = [call EXCEPT !.object = InputAfterNormalize(call.input)]
    /\ UNCHANGED <<plannerVars, pipelineVars, sessionVars, runs>>

\* the normalized config is normalized again
NormalizeAgain ==
    /\ call.fn = "normalizeConfig" /\ ret # Pending /\ call.normalized = Pending
    /\ call' = [call EXCEPT !.normalized = ret]
    /\ ret' = normalizeConfig(ret)
    /\ UNCHANGED <<plannerVars, pipelineVars, sessionVars, runs>>


(***************************************************************************)
(* Runs of the CLI on configs that name a mode                             *)
(* (src/src/types/config.ts, lines 81-90 and 175-184)                      *)
(***************************************************************************)
ModeValues ==
    { Undefined } \cup { Str(mode) : mode \in validModes \cup { <<"D","O","C","S">> } }

ModeConfigs ==
    [projectName : {Str(Demo)}, context : {Str(BuildX)},
     sourceDocuments : {Undefined}, interviewAnswers : {Undefined},
     description : {Undefined}, requirements : {Undefined},
     techStack : TechStackValues, hasFrontend : HasFrontendValues,
     jiraProjectKey : JiraProjectKeyValues, mode : ModeValues]

ModeStart ==
    /\ runner = "cli"
    /\ config \in ModeConfigs
    /\ pc = "start"
    /\ acc = NoData
    /\ disk = {}
    /\ events = <<>>
    /\ pendingCalls = 0
    /\ exitCode = -1
    /\ errors = <<>>
    /\ result = Null

(***************************************************************************)
(* Specifications                                                          *)
(***************************************************************************)
\* a run of the document pipeline, by the CLI or by the workflow
Init == PipelineStart /\ PlannerIdle /\ UtilIdle /\ SessionIdle /\ RunsIdle

Next == CliNext \/ WorkflowNext

Spec == Init /\ [][Next]_vars

\* a run of sprintPlanningStep
PlannerInit == PlannerStart /\ PipelineIdle /\ UtilIdle /\ SessionIdle /\ RunsIdle

PlannerNext == SortStories \/ PlaceStory \/ LoopExit \/ FlushLastSprint

SpecPlanner == PlannerInit /\ [][PlannerNext]_vars

\* once entered, the step's execute function keeps running
FairSpecPlanner == SpecPlanner /\ WF_vars(PlannerNext)

(***************************************************************************)
(* Sprint planner: properties                                              *)
(***************************************************************************)
\* the sprintPlan entry a placed story was stamped with
EntryOf(story) ==
    CHOOSE e \in Range(sprintPlan) : e.sprintNumber = story.sprint

\* C7: every sprint plan entry has total points at most the velocity, or
\* holds exactly one story (the story that overflowed an empty sprint).
C7_VelocityOrSingleStory ==
    \A k \in 1..Len(sprintPlan) :
        \/ sprintPlan[k].totalPoints <= velocity
        \/ Len(sprintPlan[k].stories) = 1

\* a finished plan with a sprint over the velocity and a sprint of two stories
C7_Witness ==
    /\ plannerPc = "done"
    /\ \E k \in 1..Len(sprintPlan) : sprintPlan[k].totalPoints > velocity
    /\ \E k \in 1..Len(sprintPlan) : Len(sprintPlan[k].stories) >= 2

\* what is left to do: iterations of the loop, the exit, the flush
PlannerMeasure ==
    CASE plannerPc = "sort" -> Len(detailedStories) + 3
      [] plannerPc = "loop" -> (Len(sortedStories) + 1 - loopIndex) + 2
      [] plannerPc = "flush" -> 1
      [] OTHER -> 0

OversizedStoriesAlone ==
    plannerPc = "done" =>
        /\ Len(assignedStories) = Len(detailedStories)
        /\ \A k \in 1..Len(assignedStories) :
              assignedStories[k].storyPoints > velocity =>
                  /\ \E e \in Range(sprintPlan) :
                        e.sprintNumber = assignedStories[k].sprint
                  /\ EntryOf(assignedStories[k]).stories = <<assignedStories[k].id>>

\* C8: the planner terminates on every story list: until it is done a step is
\* always possible and every step consumes a story or a phase, and a story
\* whose points exceed the velocity ends alone in its own sprint.
C8_TerminatesOversizedAlone ==
    /\ [](plannerPc = "done" \/ ENABLED PlannerNext)
    /\ [][PlannerMeasure' < PlannerMeasure]_vars
    /\ []OversizedStoriesAlone

\* a finished plan in which an oversized story follows another story
C8_Witness ==
    /\ plannerPc = "done"
    /\ Len(assignedStories) >= 2
    /\ \E k \in 2..Len(assignedStories) :
          /\ assignedStories[k].storyPoints > velocity
          /\ k < Len(assignedStories)

\* C9: the sorted order is priority-first (every P0 before every P1 before
\* every P2), so no story is in a later sprint than a story of lower priority.
C9_PriorityFirst ==
    /\ \A i, j \in 1..Len(sortedStories) :
          i < j => PriorityRank(sortedStories[i].priority)
                      <= PriorityRank(sortedStories[j].priority)
    /\ \A i, j \in 1..Len(assignedStories) :
          PriorityRank(assignedStories[i].priority)
             < PriorityRank(assignedStories[j].priority)
          => assignedStories[i].sprint <= assignedStories[j].sprint

\* a finished plan of an input listed P2, P1, P0 that fills several sprints
C9_Witness ==
    /\ plannerPc = "done"
    /\ Len(detailedStories) = 3
    /\ detailedStories[1].priority = "P2"
    /\ detailedStories[2].priority = "P1"
    /\ detailedStories[3].priority = "P0"
    /\ Len(sprintPlan) >= 2

PositionOf(id) == CHOOSE k \in 1..Len(sortedStories) : sortedStories[k].id = id
SprintOf(id) ==
    assignedStories[CHOOSE k \in 1..Len(assignedStories) :
                        assignedStories[k].id = id].sprint

\* C10: in the sorted order a direct dependency of the same priority comes
\* before its dependent, and its sprint number is at most the dependent's.
C10_DependencyFirst ==
    plannerPc = "done" =>
        \A i, j \in 1..Len(detailedStories) :
            (/\ detailedStories[j].id \in detailedStories[i].dependencies
             /\ detailedStories[j].priority = detailedStories[i].priority)
            => /\ PositionOf(detailedStories[j].id) < PositionOf(detailedStories[i].id)
               /\ SprintOf(detailedStories[j].id) <= SprintOf(detailedStories[i].id)

(***************************************************************************)
(* Document pipeline: properties                                           *)
(***************************************************************************)
Happened(e) == \E k \in 1..Len(events) : events[k] = e
Count(e) == Cardinality({ k \in 1..Len(events) : events[k] = e })
OnDisk(path, content) == [path |-> path, content |-> content] \in disk
HasFile(path) == \E f \in disk : f.path = path

IsPrefix(s, t) == Len(s) <= Len(t) /\ SubSeq(t, 1, Len(s)) = s

\* the calls and writes of a complete run, in the order of the stages
StagesInOrder ==
    <<Generate("PRD"), Write("PRD"), Generate("TDR"), Write("TDR")>>
    \o (IF Truthy(acc.hasFrontend)
        THEN <<Generate("FrontendTDR"), Write("FrontendTDR")>> ELSE <<>>)
    \o <<Generate("Stories"), Write("Stories")>>
    \o (IF Truthy(acc.jiraProjectKey) THEN <<Write("Export")>> ELSE <<>>)

Completed == result # Null

\* C1: the stages run in the order PRD, TDR, Frontend TDR (when enabled),
\* Stories, Export; at most one generation call is outstanding; a stage's
\* document is on disk before the next stage's generation call is issued.
C1_SequentialPersisted ==
    /\ pendingCalls \in {0, 1}
    /\ IsPrefix(events, StagesInOrder)
    /\ Completed => events = StagesInOrder
    /\ Happened(Generate("TDR")) =>
          OnDisk(FilePath("docs", Slug, "prd", "md"), acc.prdContent)
    /\ (Happened(Generate("FrontendTDR")) \/ Happened(Generate("Stories"))) =>
          OnDisk(FilePath("docs", Slug, "tdr", "md"), acc.tdrContent)
    /\ (Happened(Generate("Stories")) /\ Happened(Generate("FrontendTDR"))) =>
          OnDisk(FilePath("docs", Slug, "frontend-tdr", "md"),
                 acc.frontendTdrContent)
    /\ Happened(Write("Export")) =>
          OnDisk(FilePath("docs/stories", Slug, "stories", "md"),
                 acc.storiesContent)

\* a complete CLI run through all five stages
C1_Witness ==
    /\ runner = "cli" /\ exitCode = 0
    /\ Len(events) = 9

GenerationFailed == errors = <<GenerationError>>

\* C2: a failed generation call is not caught or retried by the stage; no
\* later stage calls the service or writes a file; the documents of the
\* completed stages stay on disk unchanged; the CLI exits non-zero.
C2_FailurePropagates ==
    /\ [](\A stage \in {"PRD", "TDR", "FrontendTDR", "Stories"} :
             Count(Generate(stage)) <= 1)
    /\ [](GenerationFailed =>
             /\ pc \in {"exited", "failed"}
             /\ result = Null
             /\ pendingCalls = 0
             /\ runner = "cli" => exitCode = 1
             /\ Happened(Write("PRD")) =>
                   OnDisk(FilePath("docs", Slug, "prd", "md"), acc.prdContent)
             /\ Happened(Write("TDR")) =>
                   OnDisk(FilePath("docs", Slug, "tdr", "md"), acc.tdrContent)
             /\ Happened(Write("FrontendTDR")) =>
                   OnDisk(FilePath("docs", Slug, "frontend-tdr", "md"),
                          acc.frontendTdrContent))
    /\ [][/\ ~GenerationFailed
          /\ GenerationFailed' =>
                /\ pc \in Awaiting
                /\ disk' = disk /\ events' = events /\ acc' = acc]_vars

\* the CLI exited on a failure of the Stories call, PRD and TDR on disk
C2_Witness ==
    /\ runner = "cli" /\ GenerationFailed /\ exitCode = 1
    /\ events[Len(events)] = Generate("Stories")
    /\ Cardinality(disk) >= 2

Blank(v) == ~Truthy(v) \/ (IsString(v) /\ Len(Trim(v.chars)) = 0)

\* the config has no context, no source document and no interview answer
LacksContext(c) ==
    /\ Blank(c.context)
    /\ ~Truthy(c.sourceDocuments) \/ Len(c.sourceDocuments.items) = 0
    /\ \/ ~Truthy(c.interviewAnswers)
       \/ \A i \in 1..Len(c.interviewAnswers.entries) :
             Blank(c.interviewAnswers.entries[i].value)

AbortedBeforeAnyStep ==
    /\ events = <<>>
    /\ disk = {}
    /\ pc # "start" => pc = "exited" /\ exitCode = 1

\* C3 as stated: for every config lacking context, sourceDocuments and
\* interviewAnswers, validateConfig returns an error and the CLI aborts
\* before any generation call or write.
C3_Original ==
    (runner = "cli" /\ LacksContext(config)) =>
        /\ validateConfigSchema(config) # <<>>
        /\ AbortedBeforeAnyStep

\* C3 amended: the same for every config whose normalized form (legacy
\* description and requirements folded in) lacks the three.
C3_NoContextAborts ==
    (runner = "cli" /\ LacksContext(normalizeConfig(config))) =>
        /\ validateConfig(config) # <<>>
        /\ AbortedBeforeAnyStep
        /\ pc # "start" => \E k \in 1..Len(errors) : errors[k] = NeedsContext

\* the CLI has exited on a config with a name and a tech stack but no context
C3_Witness ==
    /\ runner = "cli" /\ pc = "exited"
    /\ LacksContext(normalizeConfig(config))
    /\ config.projectName = Str(Demo)
    /\ IsArray(config.techStack)
    /\ errors = <<NeedsContext>>

\* C4: an input whose projectName is missing or not a non-empty string is
\* rejected as a configuration error before any generation step: no run
\* calls the generation service or writes a document for such an input.
C4_ProjectNameRequired ==
    (~IsString(config.projectName) \/ ~Truthy(config.projectName)) =>
        /\ events = <<>>
        /\ disk = {}

FrontendFlag == config.hasFrontend = Bool(TRUE)
FrontendTdrFile == FilePath("docs", Slug, "frontend-tdr", "md")

\* C5: the Frontend TDR stage calls the service and writes the frontend-tdr
\* file exactly when hasFrontend is true; otherwise it changes nothing but the
\* null Frontend TDR content and path, which the result carries.
C5_FrontendOnlyWhenFlagged ==
    /\ []((Happened(Generate("FrontendTDR")) \/ Happened(Write("FrontendTDR")))
            => FrontendFlag)
    /\ [](Happened(Generate("Stories")) =>
            IF FrontendFlag
            THEN /\ Count(Generate("FrontendTDR")) = 1
                 /\ OnDisk(FrontendTdrFile, acc.frontendTdrContent)
                 /\ acc.frontendTdrPath = FrontendTdrFile
            ELSE /\ acc.frontendTdrContent = Null /\ acc.frontendTdrPath = Null
                 /\ ~HasFile(FrontendTdrFile))
    /\ [](Completed =>
            result.documents.frontendTdr =
               IF FrontendFlag THEN FrontendTdrFile ELSE Null)
    /\ [][(pc = "step3" /\ ~FrontendFlag) =>
             /\ acc' = [acc EXCEPT !.frontendTdrContent = Null,
                                   !.frontendTdrPath = Null]
             /\ UNCHANGED <<config, disk, events, pendingCalls>>]_vars

\* a CLI run with hasFrontend false has completed
C5_Witness ==
    /\ runner = "cli" /\ Completed
    /\ config.hasFrontend = Bool(FALSE)
    /\ result.documents.frontendTdr = Null
    /\ Cardinality(disk) = 3

DemoInput ==
    [projectName |-> Str(Demo), context |-> Str(BuildX),
     sourceDocuments |-> Undefined, interviewAnswers |-> Undefined,
     description |-> Undefined, requirements |-> Undefined,
     techStack |-> Undefined, hasFrontend |-> Bool(FALSE),
     jiraProjectKey |-> Undefined]

DemoInputFrontendJira ==
    [DemoInput EXCEPT !.hasFrontend = Bool(TRUE), !.jiraProjectKey = Str(DemoKey)]

Ended == pc \in {"exited", "failed", "done"}

\* C6: the run on {projectName:"Demo", context:"build X", hasFrontend:false}
\* completes with documents.frontendTdr and exports.jira null; with
\* hasFrontend:true and jiraProjectKey:"DEMO" it completes with both non-null.
C6_EndToEnd ==
    /\ (config = DemoInput /\ Ended) =>
          /\ Completed
          /\ result.documents.frontendTdr = Null
          /\ result.exports.jira = Null
    /\ (config = DemoInputFrontendJira /\ Ended) =>
          /\ Completed
          /\ result.documents.frontendTdr # Null
          /\ result.exports.jira # Null

\* a call of buildPromptContext with readable source documents
ContextInit == call \in ContextCalls /\ ret = Pending /\ PlannerIdle /\ PipelineIdle /\ SessionIdle /\ RunsIdle

ContextNext == BuildPromptContext

SpecContext == ContextInit /\ [][ContextNext]_vars

\* a call of readSourceDocuments or of buildPromptContext on any file system
ReaderInit == call \in ReaderCalls /\ ret = Pending /\ PlannerIdle /\ PipelineIdle /\ SessionIdle /\ RunsIdle

ReaderNext == ReadSourceDocuments \/ BuildPromptContext

SpecReader == ReaderInit /\ [][ReaderNext]_vars

(***************************************************************************)
(* Context builder and document reader: properties                         *)
(***************************************************************************)
Returned(fn) == call.fn = fn /\ ret # Pending

EndsWith(s, w) == Len(w) <= Len(s) /\ SubSeq(s, Len(s) - Len(w) + 1, Len(s)) = w

MaxLengthOf(options) ==
    IF options.maxLength = Undefined THEN DefaultMaxLength ELSE options.maxLength.num

\* C11: the rendered output of buildPromptContext never exceeds maxLength
\* characters; when the context is cut the output ends with the truncation
\* marker and the truncated flag is true, otherwise the flag is false.
C11_NeverExceedsMaxLength ==
    Returned("buildPromptContext") =>
        LET maxLength == MaxLengthOf(call.options)
            cut == Len(ContextParts(call.config, call.options, call.fs).context)
                      > maxLength
        IN /\ Len(ret.promptContext) <= maxLength
           /\ ret.truncated = cut
           /\ cut => EndsWith(ret.promptContext, ContextTruncatedMarker)

\* the paths of the call that name a readable regular file, in input order
ReadablePaths(paths, fs) ==
    LET Readable(p) == fs[p].kind = "file" IN SelectSeq(paths, Readable)

UnreadablePaths(paths, fs) ==
    LET Failing(p) == fs[p].kind # "file" IN SelectSeq(paths, Failing)

PathsOf(records) == [i \in 1..Len(records) |-> records[i].path]

\* the section a readable document puts into the context
DocumentSection(path, fs) ==
    SourceHeading \o basename(path) \o <<"\n","\n">> \o Trim(fs[path].content)

RECURSIVE OccurInOrder(_, _, _)
\* the words occur in s one after the other, from position `from` on
OccurInOrder(s, words, from) ==
    IF words = <<>> THEN TRUE
    ELSE LET at == IndexOf(s, Head(words), from)
         IN at # 0 /\ OccurInOrder(s, Tail(words), at + Len(Head(words)))

\* readSourceDocuments splits the paths into documents and errors
ReaderSplits ==
    Returned("readSourceDocuments") =>
        /\ PathsOf(ret.documents) = ReadablePaths(call.paths, call.fs)
        /\ PathsOf(ret.errors) = UnreadablePaths(call.paths, call.fs)
        /\ Len(ret.documents) + Len(ret.errors) = Len(call.paths)
        /\ \A i \in 1..Len(ret.documents) :
              /\ ret.documents[i].success
              /\ ret.documents[i].content = call.fs[ret.documents[i].path].content
        /\ \A i \in 1..Len(ret.errors) :
              /\ ~ret.errors[i].success
              /\ ret.errors[i].content = <<>>
              /\ Len(ret.errors[i].error) > 0

\* the readable documents of a buildPromptContext call, in input order
ReadableOfCall ==
    ReadablePaths([i \in 1..Len(call.config.sourceDocuments.items) |->
                      call.config.sourceDocuments.items[i].chars], call.fs)

SectionsOfCall ==
    [i \in 1..Len(ReadableOfCall) |-> DocumentSection(ReadableOfCall[i], call.fs)]

\* C20 as stated: unreadable documents are recorded per file and every
\* readable document contributes its section to the built context, in input
\* order.
C20_Original ==
    /\ ReaderSplits
    /\ (Returned("buildPromptContext") /\ call \in ReaderCalls) =>
          /\ ret.sourceDocuments =
                [i \in 1..Len(ReadableOfCall) |-> basename(ReadableOfCall[i])]
          /\ OccurInOrder(ret.promptContext, SectionsOfCall, 1)

\* C20 amended: every path is in exactly one of documents and errors, in
\* input order, an unreadable document never aborts the build, every readable
\* document is listed in sourceDocuments in input order, and its section is
\* in the built context, in input order, whenever the context is not
\* truncated.
C20_UnreadableRecorded ==
    /\ ReaderSplits
    /\ (Returned("buildPromptContext") /\ call \in ReaderCalls) =>
          /\ ret.sourceDocuments =
                [i \in 1..Len(ReadableOfCall) |-> basename(ReadableOfCall[i])]
          /\ ~ret.truncated =>
                OccurInOrder(ret.promptContext, SectionsOfCall, 1)

\* a context was built from two paths, the first unreadable, the second read
C20_Witness ==
    /\ Returned("buildPromptContext")
    /\ call \in ReaderCalls
    /\ Len(call.config.sourceDocuments.items) = 2
    /\ call.fs[call.config.sourceDocuments.items[1].chars].kind = "unreadable"
    /\ ret.sourceDocuments = <<basename(PathB)>>
    /\ ~ret.truncated

\* a call of extractKeySections or of buildTDRPrompt
ExtractInit == call \in ExtractCalls /\ ret = Pending /\ PlannerIdle /\ PipelineIdle /\ SessionIdle /\ RunsIdle

ExtractNext == ExtractKeySections \/ BuildTDRPrompt

SpecExtract == ExtractInit /\ [][ExtractNext]_vars

(***************************************************************************)
(* Key-section extraction: properties                                      *)
(***************************************************************************)
ProblemStatementHeading ==
    <<"#","#"," ","P","r","o","b","l","e","m"," ","S","t","a","t","e","m","e","n","t">>

\* a heading of level one or two starts at position i
HeadingAt(s, i) ==
    LineStart(s, i) /\ (StartsAt(s, i, <<"#"," ">>) \/ StartsAt(s, i, <<"#","#"," ">>))

\* where the first "## Problem Statement" heading starts; 0 if there is none
ProblemStatementAt(s) ==
    IF \E i \in 1..Len(s) : LineStart(s, i) /\ StartsAt(s, i, ProblemStatementHeading)
    THEN CHOOSE i \in 1..Len(s) :
            /\ LineStart(s, i) /\ StartsAt(s, i, ProblemStatementHeading)
            /\ \A k \in 1..(i - 1) :
                  ~(LineStart(s, k) /\ StartsAt(s, k, ProblemStatementHeading))
    ELSE 0

\* the section: from its heading to the next heading of level one or two, or
\* to the end of the text
ProblemStatementSection(s) ==
    LET from == ProblemStatementAt(s)
        next == { j \in (from + 1)..Len(s) : HeadingAt(s, j) }
        to == IF next = {} THEN Len(s)
              ELSE (CHOOSE j \in next : \A k \in next : j <= k) - 1
    IN Trim(SubSeq(s, from, to))

\* C12: extractKeySections returns the text unchanged when it is no longer
\* than the target; for a longer text with a "## Problem Statement" heading
\* the text of that section is in the output.
C12_KeySectionsKept ==
    Returned("extractKeySections") =>
        /\ Len(call.content) <= call.maxLength => ret = call.content
        /\ (Len(call.content) > call.maxLength
            /\ ProblemStatementAt(call.content) # 0)
           => Includes(ret, ProblemStatementSection(call.content))

\* C13: the PRD excerpt the TDR prompt carries is at most 4000 characters.
C13_ExcerptWithinLimit ==
    (Returned("buildTDRPrompt") /\ ret.prdContext # Undefined) =>
        Len(ret.prdContext.chars) <= PrdExcerptLimit

\* the summary metrics of a Stories text
MetricsInit == call \in MetricsCalls /\ ret = Pending /\ PlannerIdle /\ PipelineIdle /\ SessionIdle /\ RunsIdle

MetricsNext == CalculateSummaryMetrics

SpecMetrics == MetricsInit /\ [][MetricsNext]_vars

(***************************************************************************)
(* Summary metrics: properties                                             *)
(***************************************************************************)
\* the identifiers word<digits> that occur in the text
Identifiers(s, word) ==
    { SubSeq(s, i, SkipClass(s, i + Len(word), Digits) - 1) :
        i \in { j \in 1..Len(s) : /\ StartsAt(s, j, word)
                                  /\ j + Len(word) <= Len(s)
                                  /\ s[j + Len(word)] \in Digits } }

\* the text has a "Story Points: <digits>" token the runner's pattern matches
HasPoints(s, by) ==
    \E i \in 1..Len(s) : TokenEndAt(s, i, StoryPointsLabel, by = "cli", TRUE) # 0

\* C14 as stated: a text with no EPIC-<digits> and no US-<digits> token is
\* summarised as 3 epics, 10 stories and 50 points; otherwise the counts are
\* the numbers of distinct identifiers.
C14_Original ==
    Returned("SummaryMetrics") =>
        /\ (Identifiers(call.text, EpicToken) = {}
            /\ Identifiers(call.text, StoryToken) = {})
           => ret = [epics |-> 3, stories |-> 10, totalPoints |-> 50]
        /\ Identifiers(call.text, EpicToken) # {} =>
              ret.epics = Cardinality(Identifiers(call.text, EpicToken))
        /\ Identifiers(call.text, StoryToken) # {} =>
              ret.stories = Cardinality(Identifiers(call.text, StoryToken))

\* C14 amended: the extraction returns on every text; without EPIC tokens the
\* epics are 3, without US tokens the stories are 10, and without a Story
\* Points token the total is five points per counted story (50 when there is
\* no US token either); present tokens are counted as distinct identifiers.
C14_MetricsFallback ==
    Returned("SummaryMetrics") =>
        /\ ret.epics = IF Identifiers(call.text, EpicToken) = {} THEN 3
                       ELSE Cardinality(Identifiers(call.text, EpicToken))
        /\ ret.stories = IF Identifiers(call.text, StoryToken) = {} THEN 10
                         ELSE Cardinality(Identifiers(call.text, StoryToken))
        /\ ~HasPoints(call.text, call.runner) => ret.totalPoints = ret.stories * 5
        /\ (/\ Identifiers(call.text, EpicToken) = {}
            /\ Identifiers(call.text, StoryToken) = {}
            /\ ~HasPoints(call.text, call.runner))
           => ret = [epics |-> 3, stories |-> 10, totalPoints |-> 50]

\* the metrics of a text of several lines without any token
C14_Witness ==
    /\ Returned("SummaryMetrics")
    /\ Len(call.text) > 5
    /\ Identifiers(call.text, EpicToken) = {}
    /\ Identifiers(call.text, StoryToken) = {}
    /\ ~HasPoints(call.text, call.runner)
    /\ ret = [epics |-> 3, stories |-> 10, totalPoints |-> 50]

(***************************************************************************)
(* The Jira export as a function of the Stories text                       *)
(***************************************************************************)
JiraInit == PipelineIdle /\ PlannerIdle /\ call \in JiraCalls /\ ret = Pending /\ SessionIdle /\ RunsIdle

JiraNext == GenerateJiraCSV \/ WorkflowGenerateJiraCSV

SpecJira == JiraInit /\ [][JiraNext]_vars

RECURSIVE ReadQuoted(_, _, _)
\* a quoted field read from position i, after the opening quote: the cell
\* and the position after the closing quote
ReadQuoted(s, i, cell) ==
    IF i > Len(s) THEN [cell |-> cell, next |-> i]
    ELSE IF s[i] = "\""
         THEN IF i < Len(s) /\ s[i + 1] = "\""
              THEN ReadQuoted(s, i + 2, Append(cell, "\""))
              ELSE [cell |-> cell, next |-> i + 1]
         ELSE ReadQuoted(s, i + 1, Append(cell, s[i]))

\* a field read from position i by the standard quoting rules
ReadField(s, i) ==
    IF i <= Len(s) /\ s[i] = "\"" THEN ReadQuoted(s, i + 1, <<>>)
    ELSE LET end == FindClass(s, i, {",", "\n"})
         IN [cell |-> SubSeq(s, i, end - 1), next |-> end]

RECURSIVE ReadRows(_, _, _)
\* the rows of a CSV text from position i, `row` being the fields read so
\* far on the current line
ReadRows(s, i, row) ==
    LET field == ReadField(s, i)
        cells == Append(row, field.cell)
    IN IF field.next > Len(s) THEN <<cells>>
       ELSE IF s[field.next] = "," THEN ReadRows(s, field.next + 1, cells)
       ELSE <<cells>> \o ReadRows(s, field.next + 1, <<>>)

ParseCSV(s) == ReadRows(s, 1, <<>>)

RECURSIVE SplitLines(_)
\* the lines of a text
SplitLines(s) ==
    LET end == FindClass(s, 1, {"\n"})
    IN IF end > Len(s) THEN <<s>>
       ELSE <<SubSeq(s, 1, end - 1)>> \o SplitLines(SubSeq(s, end + 1, Len(s)))

\* a line of the form ### US-<digits>: <title>
IsStoryHeading(line) ==
    LET digits == Len(HeadingMarks) + 1 + Len(StoryToken) + 1
        colon == SkipClass(line, digits, Digits)
    IN /\ StartsAt(line, 1, HeadingMarks \o <<" ">> \o StoryToken)
       /\ colon > digits
       /\ StartsAt(line, colon, <<":", " ">>)
       /\ colon + 2 <= Len(line)

HeadingTitle(line) ==
    SubSeq(line, FindClass(line, 1, {":"}) + 2, Len(line))

\* the positions of the story headings among the lines, in document order
HeadingLines(lines) ==
    LET IsHeadingAt(k) == IsStoryHeading(lines[k])
    IN SelectSeq([k \in 1..Len(lines) |-> k], IsHeadingAt)

\* the lines of the block of the n-th heading: up to the next heading
BlockLines(lines, headings, n) ==
    SubSeq(lines, headings[n] + 1,
           IF n < Len(headings) THEN headings[n + 1] - 1 ELSE Len(lines))

\* the values of the lines of a block that start with the label
LabelledValues(block, label) ==
    LET Labelled(line) == StartsAt(line, 1, label) /\ Len(line) > Len(label)
        own == SelectSeq(block, Labelled)
    IN [k \in 1..Len(own) |-> SubSeq(own[k], Len(label) + 1, Len(own[k]))]

JiraPriorityNames ==
    [p \in {<<"P","0">>, <<"P","1">>, <<"P","2">>} |->
        IF p = <<"P","0">> THEN Highest ELSE IF p = <<"P","1">> THEN High ELSE Medium]

\* the data rows of the returned CSV
DataRows == Tail(ParseCSV(ret))

\* C15 (as stated): one data row per story heading, in document order; when
\* every block has its own Priority and Story Points lines, each row has
\* that story's own priority, mapped to Highest, High or Medium, and that
\* story's own points; without a story heading, exactly one placeholder row
C15_OneRowPerStory ==
    Returned("generateJiraCSV") =>
        LET lines == SplitLines(call.storiesContent)
            headings == HeadingLines(lines)
            OwnPriorities(n) ==
                LabelledValues(BlockLines(lines, headings, n), PriorityLabel \o <<" ">>)
            OwnPoints(n) ==
                LabelledValues(BlockLines(lines, headings, n), StoryPointsLabel \o <<" ">>)
        IN IF headings = <<>>
           THEN /\ Len(DataRows) = 1
                /\ DataRows[1][2] = Summary(call.projectKey, InitialSetup)
           ELSE /\ Len(DataRows) = Len(headings)
                /\ \A n \in 1..Len(headings) :
                      DataRows[n][2] =
                          Summary(call.projectKey, HeadingTitle(lines[headings[n]]))
                /\ (\A n \in 1..Len(headings) :
                        /\ Len(OwnPriorities(n)) = 1
                        /\ OwnPriorities(n)[1] \in DOMAIN JiraPriorityNames
                        /\ Len(OwnPoints(n)) = 1)
                   => \A n \in 1..Len(headings) :
                        /\ DataRows[n][4] = JiraPriorityNames[OwnPriorities(n)[1]]
                        /\ DataRows[n][5] = OwnPoints(n)[1]

\* the first line of the returned CSV
HeaderLine == SplitLines(ret)[1]

\* C16 (as stated): the header row is the six names, every data row has
\* exactly six fields, and the text is each row's fields in double quotes
\* with the embedded quotes doubled, so that reading it by the standard
\* quoting rules gives the cell values back
C16_SixQuotedFields ==
    Returned("generateJiraCSV") =>
        LET rows == JiraRows(call.storiesContent, call.projectKey, call.projectName)
        IN /\ HeaderLine = JoinChars(Headers, <<",">>)
           /\ \A n \in 1..Len(DataRows) : Len(DataRows[n]) = Len(Headers)
           /\ DataRows = rows

(***************************************************************************)
(* The export file                                                         *)
(***************************************************************************)
\* the file name exportToJiraTool gives its export
\* (`${projectKey.toLowerCase()}-stories-jira-${timestamp}.csv`)
StoriesJiraPath(projectKey) ==
    FilePath("docs/exports", [i \in 1..Len(projectKey) |-> toLowerCase(projectKey[i])],
             "stories-jira", "csv")

ExportFiles == { f \in disk : f.path.dir = "docs/exports" }

\* C17 (as stated): an export is written only if a project key is supplied,
\* and then to docs/exports/{key in lower case}-stories-jira-{date}.csv
C17_ExportNamedByKey ==
    /\ ExportFiles # {} => Truthy(acc.jiraProjectKey)
    /\ (Ended /\ Completed /\ Truthy(acc.jiraProjectKey)) =>
          \E f \in ExportFiles : f.path = StoriesJiraPath(acc.jiraProjectKey.chars)

(***************************************************************************)
(* normalizeConfig as a function of the raw config                         *)
(***************************************************************************)
NormalizeInit ==
    PipelineIdle /\ PlannerIdle /\ call \in NormalizeCalls /\ ret = Pending /\ SessionIdle /\ RunsIdle

NormalizeNext == NormalizeConfig \/ NormalizeAgain

SpecNormalize == NormalizeInit /\ [][NormalizeNext]_vars

CanonicalFields ==
    { "projectName", "context", "sourceDocuments", "interviewAnswers", "mode",
      "techStack", "hasFrontend", "teamContext", "jiraProjectKey", "author" }

\* C18: normalizing a normalized config returns the same canonical fields
C18_NormalizeIdempotent ==
    (call.fn = "normalizeConfig" /\ call.normalized # Pending) =>
        \A field \in CanonicalFields : ret[field] = call.normalized[field]

\* C18 witness: a legacy config was migrated and the result normalized again
C18_Witness ==
    /\ call.fn = "normalizeConfig" /\ call.normalized # Pending
    /\ call.input.context = Undefined
    /\ IsString(call.input.description)
    /\ MigratesRequirements(call.input)
    /\ IsString(call.input.mode)
    /\ ret.context = call.input.description
    /\ GetKey(ret.interviewAnswers.entries, "mvpScope") = MvpScopeOf(call.input)

\* the first call has returned
Normalized == call.fn = "normalizeConfig" /\ ret # Pending /\ call.normalized = Pending

\* the mvpScope answer of a config, Undefined if there is none
MvpScopeIn(c) ==
    IF Truthy(c.interviewAnswers) /\ c.interviewAnswers.type = "object"
    THEN GetKey(c.interviewAnswers.entries, "mvpScope")
    ELSE Undefined

\* C19 (as stated): a context or an mvpScope supplied in the raw config is
\* returned unchanged
C19_Original ==
    Normalized =>
        /\ IsString(call.input.context) => ret.context = call.input.context
        /\ IsString(MvpScopeIn(call.input)) => MvpScopeIn(ret) = MvpScopeIn(call.input)

\* C19: the returned context differs from the supplied one only when the
\* supplied one is absent or empty and there is a legacy description, which
\* it then is; the returned mvpScope differs from the supplied one only when
\* the supplied one is absent or empty and there is a non-empty legacy
\* requirements list, of which it then is the bulleted list
C19_LegacyNeverOverrides ==
    Normalized =>
        /\ ret.context # StringOrAbsent(call.input.context) =>
              /\ ~Truthy(StringOrAbsent(call.input.context))
              /\ IsString(call.input.description)
              /\ ret.context = call.input.description
        /\ MvpScopeIn(ret) # MvpScopeIn(call.input) =>
              /\ ~Truthy(MvpScopeIn(call.input))
              /\ IsArray(call.input.requirements)
              /\ Len(call.input.requirements.items) > 0
              /\ MvpScopeIn(ret) = MvpScopeOf(call.input)

\* C19 witness: a config with an explicit context and an explicit mvpScope
\* and with both legacy fields was normalized
C19_Witness ==
    /\ Normalized
    /\ Truthy(call.input.context)
    /\ Truthy(MvpScopeIn(call.input))
    /\ IsString(call.input.description)
    /\ IsArray(call.input.requirements) /\ Len(call.input.requirements.items) > 0
    /\ ret.context = call.input.context
    /\ MvpScopeIn(ret) = MvpScopeIn(call.input)

(***************************************************************************)
(* The mode of a run                                                       *)
(***************************************************************************)
ModeInit == ModeStart /\ PlannerIdle /\ UtilIdle /\ SessionIdle /\ RunsIdle

SpecMode == ModeInit /\ [][CliNext]_vars

Stages == {"PRD", "TDR", "FrontendTDR", "Stories"}

\* the documents the run asked the generation service for
GeneratedDocuments == { stage \in Stages : Happened(Generate(stage)) }

\* the documents a mode stands for
SelectedDocuments(mode) ==
    CASE mode = Str(<<"P","R","D">>) -> {"PRD"}
      [] mode = Str(<<"T","D","R">>) -> {"TDR"}
      [] mode = Str(<<"F","R","O","N","T","E","N","D","_","T","D","R">>) -> {"FrontendTDR"}
      [] mode = Str(<<"S","T","O","R","I","E","S">>) -> {"Stories"}
      [] OTHER -> Stages

\* C21 (as stated): a completed run has generated the documents of its mode
\* and no others: one document for PRD, TDR, FRONTEND_TDR and STORIES, and
\* all of them (the Frontend TDR when hasFrontend is set) for ALL or no mode
C21_ModeSelectsDocuments ==
    (runner = "cli" /\ Completed) =>
        /\ GeneratedDocuments \subseteq SelectedDocuments(Field(config, "mode"))
        /\ SelectedDocuments(Field(config, "mode")) \ {"FrontendTDR"}
              \subseteq GeneratedDocuments

(***************************************************************************)
(* Sprint planner: the shape of the plan                                   *)
(***************************************************************************)
GreedyInit == EqualPriorityStart /\ PipelineIdle /\ UtilIdle /\ SessionIdle /\ RunsIdle

SpecGreedy == GreedyInit /\ [][PlannerNext]_vars

\* the estimate of the sorted story with the given id
PlannedPoints(id) ==
    sortedStories[CHOOSE k \in 1..Len(sortedStories) :
                      sortedStories[k].id = id].storyPoints

RECURSIVE TotalOf(_)
TotalOf(ids) ==
    IF ids = <<>> THEN 0 ELSE PlannedPoints(Head(ids)) + TotalOf(Tail(ids))

RECURSIVE Flatten(_)
Flatten(lists) ==
    IF lists = <<>> THEN <<>> ELSE Head(lists) \o Flatten(Tail(lists))

RECURSIVE SumOfTotals(_)
SumOfTotals(entries) ==
    IF entries = <<>> THEN 0
    ELSE Head(entries).totalPoints + SumOfTotals(Tail(entries))

\* the story lists of the plan, in sprint order
PlannedStories == [k \in 1..Len(sprintPlan) |-> sprintPlan[k].stories]

\* the ids of a story list, in order
IdsOf(stories) == [k \in 1..Len(stories) |-> stories[k].id]

\* an iteration of the loop closes the sprint exactly when the story does not
\* fit and the sprint holds a story
ClosesExactlyOnOverflow ==
    (plannerPc = "loop" /\ loopIndex' = loopIndex + 1) =>
        ((Len(sprintPlan') = Len(sprintPlan) + 1)
         <=> (/\ currentSprintPoints + sortedStories[loopIndex].storyPoints
                    > velocity
              /\ Len(currentSprintStories) > 0))

\* the first story of a sprint did not fit in the sprint before it
FirstStoryDidNotFit ==
    /\ \A k \in 1..(Len(sprintPlan) - 1) :
          sprintPlan[k].totalPoints
             + PlannedPoints(Head(sprintPlan[k + 1].stories)) > velocity
    /\ (plannerPc = "loop" /\ sprintPlan # <<>> /\ currentSprintStories # <<>>)
       => sprintPlan[Len(sprintPlan)].totalPoints
             + PlannedPoints(Head(currentSprintStories)) > velocity

\* stories of 8, 5, 5 and 3 points at velocity 10 are planned as
\* [8], [5, 5], [3]
EightFiveFiveThree ==
    /\ Len(detailedStories) = 4
    /\ [k \in 1..4 |-> detailedStories[k].storyPoints] = <<8, 5, 5, 3>>
    /\ velocity = 10
    /\ plannerPc = "done"

ExamplePlan ==
    EightFiveFiveThree => PlannedStories = << <<1>>, <<2, 3>>, <<4>> >>

\* C24: the planner is greedy first-fit over the sorted order: a sprint is
\* closed exactly when the next story would exceed the velocity and the sprint
\* is not empty, so the total of a sprint plus the first story of the next
\* sprint exceeds the velocity; points 8, 5, 5, 3 at velocity 10 give the
\* sprints [8], [5, 5], [3].
C24_GreedyFirstFit ==
    /\ [][ClosesExactlyOnOverflow]_vars
    /\ []FirstStoryDidNotFit
    /\ []ExamplePlan

\* the plan of the stories of 8, 5, 5 and 3 points at velocity 10
C24_Witness == EightFiveFiveThree /\ Len(sprintPlan) = 3

\* C25: every story is placed in exactly one sprint and the last sprint is
\* flushed: the story lists of the entries, concatenated in sprint order, are
\* the sorted story list, and an empty story list gives an empty plan.
C25_EveryStoryPlacedOnce ==
    plannerPc = "done" =>
        /\ Flatten(PlannedStories) = IdsOf(sortedStories)
        /\ IdsOf(assignedStories) = IdsOf(sortedStories)
        /\ \A i \in 1..Len(detailedStories) :
              Cardinality({ k \in 1..Len(sprintPlan) :
                              \E j \in 1..Len(sprintPlan[k].stories) :
                                  sprintPlan[k].stories[j] = detailedStories[i].id }) = 1
        /\ (detailedStories = <<>> => sprintPlan = <<>>)

\* a finished plan whose last sprint was still open when the loop ended and
\* holds two stories, after a sprint that was closed in the loop
C25_Witness ==
    /\ plannerPc = "done"
    /\ Len(sprintPlan) = 2
    /\ Len(sprintPlan[2].stories) = 2
    /\ sortedStories # detailedStories

\* C26: the entries are numbered 1..n without gaps, no entry is empty, the
\* total of an entry is the sum of the points of its stories (so the totals
\* add up to the points of all stories), and the sprint stamped on a story is
\* the number of the entry that lists it.
C26_EntriesConsistent ==
    /\ \A k \in 1..Len(sprintPlan) :
          /\ sprintPlan[k].sprintNumber = k
          /\ sprintPlan[k].stories # <<>>
          /\ sprintPlan[k].totalPoints = TotalOf(sprintPlan[k].stories)
    /\ plannerPc = "done" =>
          /\ SumOfTotals(sprintPlan) = TotalOf(IdsOf(sortedStories))
          /\ \A i \in 1..Len(assignedStories) :
                \A k \in 1..Len(sprintPlan) :
                    (\E j \in 1..Len(sprintPlan[k].stories) :
                        sprintPlan[k].stories[j] = assignedStories[i].id)
                    <=> assignedStories[i].sprint = k

\* a finished plan of a reordered input whose first sprint holds two stories
\* and is followed by another sprint
C26_Witness ==
    /\ plannerPc = "done"
    /\ Len(sprintPlan) = 2
    /\ Len(sprintPlan[1].stories) = 2
    /\ IdsOf(sortedStories) # IdsOf(detailedStories)

(***************************************************************************)
(* File names                                                              *)
(***************************************************************************)
\* sanitizeFilename(name)
SanitizeFilename ==
    /\ call.fn = "sanitizeFilename" /\ ret = Pending
    /\ ret' = Str(sanitizeFilename(call.name))
    /\ UNCHANGED <<call, plannerVars, pipelineVars, sessionVars, runs>>

\* sanitizeFilename(sanitizeFilename(name))
SanitizeAgain ==
    /\ call.fn = "sanitizeFilename" /\ ret # Pending /\ call.again = Pending
    /\ call' = [call EXCEPT !.again = Str(sanitizeFilename(ret.chars))]
    /\ UNCHANGED <<ret, plannerVars, pipelineVars, sessionVars, runs>>

SanitizeInit ==
    PipelineIdle /\ PlannerIdle /\ call \in SanitizeCalls /\ ret = Pending /\ SessionIdle /\ RunsIdle

SanitizeNext == SanitizeFilename \/ SanitizeAgain

SpecSanitize == SanitizeInit /\ [][SanitizeNext]_vars

\* the class [a-z0-9_-]
SlugUnits == Range(LowerCase) \cup Digits \cup {"-", "_"}

\* C23: sanitizeFilename replaces every character outside [A-Za-z0-9_-] by a
\* hyphen, one for one, and lower-cases the result: the result has the length
\* of the input, consists of [a-z0-9_-] only, is unchanged by a second
\* application, and "My App! 2.0" becomes "my-app--2-0".
C23_SanitizeOneForOne ==
    (call.fn = "sanitizeFilename" /\ ret # Pending) =>
        /\ Len(ret.chars) = Len(call.name)
        /\ \A i \in 1..Len(ret.chars) :
              /\ ret.chars[i] \in SlugUnits
              /\ FilenameSafe(call.name[i]) => ret.chars[i] = toLowerCase(call.name[i])
              /\ ~FilenameSafe(call.name[i]) => ret.chars[i] = "-"
        /\ call.again # Pending => call.again = ret
        /\ call.name = MyApp =>
              ret.chars = <<"m","y","-","a","p","p","-","-","2","-","0">>

\* "My App! 2.0" has been sanitized twice
C23_Witness ==
    /\ call.fn = "sanitizeFilename"
    /\ call.name = MyApp
    /\ call.again # Pending
    /\ ret.chars # call.name

(***************************************************************************)
(* Context builder: sections and answered questions                        *)
(***************************************************************************)
\* two known questions, listed against the canonical order, and two custom
\* questions, listed against the alphabet
AnswerKeys == {"mvpScope", "problem", "zeta", "alpha"}

\* a blank answer and an answer
AnswerValues == { Str(<<" ">>), Str(<<"v"," ">>) }

\* the interviewAnswers objects of at most n own properties
AnswerObjects(n) ==
    { Obj([i \in 1..Len(ks) |-> [key |-> ks[i], value |-> vs[i]]]) :
        <<ks, vs>> \in
            UNION { { <<k, v>> : k \in { f \in [1..m -> AnswerKeys] :
                                          \A i, j \in 1..m : i # j => f[i] # f[j] },
                                 v \in [1..m -> AnswerValues] } : m \in 0..n } }

\* no file exists
NoFiles == [p \in Paths |-> Missing]

SectionConfigs ==
    [projectName : {Str(Demo)},
     context : {Str(<<" ">>), Str(BuildX)},
     sourceDocuments : {StringArray(<<PathA>>)},
     interviewAnswers : {Undefined} \cup AnswerObjects(MaxAnswers),
     techStack : {StringArray(<<>>), StringArray(<< <<"N">> >>)},
     requirements : {Undefined, StringArray(<< <<"r","1">> >>)},
     teamContext : {Undefined,
                    [type |-> "object", velocity |-> Num(0),
                     sprintDuration |-> Num(2), teamSize |-> Undefined],
                    [type |-> "object", velocity |-> Num(0),
                     sprintDuration |-> Undefined, teamSize |-> Undefined]}]

SectionCalls ==
    { [fn |-> "buildPromptContext", config |-> c,
       options |-> [maxLength |-> Undefined, maxPerDocument |-> Undefined,
                    includeSourceDocs |-> o.include],
       fs |-> o.fs] :
        c \in SectionConfigs,
        o \in { [include |-> Undefined, fs |-> ReadableFiles],
                [include |-> Undefined, fs |-> NoFiles],
                [include |-> Bool(FALSE), fs |-> ReadableFiles] } }

SectionInit == call \in SectionCalls /\ ret = Pending /\ PlannerIdle /\ PipelineIdle /\ SessionIdle /\ RunsIdle

SpecSections == SectionInit /\ [][ContextNext]_vars

\* the section names, in the order of the code
SectionOrder ==
    <<"Project Header", "User Context", "Reference Documents",
      "Interview Answers", "Tech Stack", "Requirements", "Team Context">>

\* the heading each section starts with
SectionHeading ==
    [n \in Range(SectionOrder) |->
        CASE n = "Project Header" -> ProjectHeading
          [] n = "User Context" -> UserContextHeading
          [] n = "Reference Documents" -> ReferenceDocumentsHeading
          [] n = "Interview Answers" -> InterviewAnswersHeading
          [] n = "Tech Stack" -> TechStackHeading
          [] n = "Requirements" -> RequirementsHeading
          [] OTHER -> TeamContextHeading]

RankIn(order, x) == CHOOSE k \in 1..Len(order) : order[k] = x

NonBlank(v) ==
    v.type = "string" /\ \E i \in 1..Len(v.chars) : v.chars[i] \notin WhiteSpace

\* the own properties of the interviewAnswers of a config
EntriesOf(c) ==
    IF c.interviewAnswers = Undefined THEN <<>> ELSE c.interviewAnswers.entries

KeysOf(entries) == [i \in 1..Len(entries) |-> entries[i].key]

\* what each section is made from is not empty
SectionSource(c, options, fs, n) ==
    CASE n = "Project Header" -> TRUE
      [] n = "User Context" -> NonBlank(c.context)
      [] n = "Reference Documents" ->
            /\ options.includeSourceDocs # Bool(FALSE)
            /\ c.sourceDocuments # Undefined
            /\ \E i \in 1..Len(c.sourceDocuments.items) :
                  fs[c.sourceDocuments.items[i].chars].kind = "file"
      [] n = "Interview Answers" ->
            \E i \in 1..Len(EntriesOf(c)) : NonBlank(EntriesOf(c)[i].value)
      [] n = "Tech Stack" ->
            c.techStack # Undefined /\ c.techStack.items # <<>>
      [] n = "Requirements" ->
            c.requirements # Undefined /\ c.requirements.items # <<>>
      [] OTHER ->
            /\ c.teamContext # Undefined
            /\ \E f \in {"velocity", "sprintDuration", "teamSize"} :
                  c.teamContext[f] # Undefined /\ c.teamContext[f].num # 0

SectionsInOrder(r) ==
    LET at == [i \in 1..Len(r.sections) |->
                  IndexOf(r.promptContext, SectionHeading[r.sections[i]], 1)]
    IN /\ \A i \in 1..Len(r.sections) :
             r.sections[i] \in Range(SectionOrder) /\ at[i] > 0
       /\ \A i \in 1..(Len(r.sections) - 1) :
             /\ RankIn(SectionOrder, r.sections[i])
                   < RankIn(SectionOrder, r.sections[i + 1])
             /\ at[i] < at[i + 1]

AnswersInOrder(entries, answered) ==
    /\ Range(answered)
          = { entries[i].key : i \in { k \in 1..Len(entries) :
                                          NonBlank(entries[k].value) } }
    /\ \A i, j \in 1..Len(answered) :
          i < j =>
             /\ answered[i] # answered[j]
             /\ LET a == answered[i]
                    b == answered[j]
                    known == Range(allKnownQuestions)
                IN CASE a \in known /\ b \in known ->
                          RankIn(allKnownQuestions, a) < RankIn(allKnownQuestions, b)
                     [] a \in known /\ b \notin known -> TRUE
                     [] a \notin known /\ b \in known -> FALSE
                     [] OTHER ->
                          RankIn(KeysOf(entries), a) < RankIn(KeysOf(entries), b)

\* C27: buildPromptContext emits its sections in the order Project Header,
\* User Context, Reference Documents, Interview Answers, Tech Stack,
\* Requirements, Team Context, and a section only when what it is made from is
\* not empty; among the interview answers the known questions come first in
\* the canonical order, then the custom keys in the order of the object, and
\* answeredQuestions lists exactly the keys with a non-blank answer, each once.
C27_SectionsInFixedOrder ==
    Returned("buildPromptContext") =>
        /\ SectionsInOrder(ret)
        /\ \A i \in 1..Len(ret.sections) :
              SectionSource(call.config, call.options, call.fs, ret.sections[i])
        /\ \A n \in Range(SectionOrder) \ {"Requirements"} :
              SectionSource(call.config, call.options, call.fs, n)
                 => n \in Range(ret.sections)
        /\ AnswersInOrder(EntriesOf(call.config), ret.answeredQuestions)

\* a config whose answers list mvpScope before problem and zeta before alpha,
\* one of them blank, was rendered
C27_Witness ==
    /\ Returned("buildPromptContext")
    /\ Len(EntriesOf(call.config)) = 2
    /\ KeysOf(EntriesOf(call.config)) = <<"mvpScope", "problem">>
    /\ ret.answeredQuestions = <<"problem", "mvpScope">>
    /\ Len(ret.sections) >= 5

(***************************************************************************)
(* Config normalizer: the input object                                     *)
(***************************************************************************)
\* C28: normalizeConfig leaves its input unchanged: after the call the object
\* that was passed has the fields, and the interviewAnswers, it was passed
\* with.
C28_InputUnchanged ==
    call.fn = "normalizeConfig" => call.object = call.input

(***************************************************************************)
(* Story builder workflow, end to end                                      *)
(* (src/src/mastra/workflows/story-builder-workflow.ts)                    *)
(***************************************************************************)
\* lines 76-78: the headings of the three feature lists
MustHave ==
    <<"#","#","#"," ","4",".","1"," ","M","u","s","t"," ","H","a","v","e"," ","(","P","0",")">>
ShouldHave ==
    <<"#","#","#"," ","4",".","2"," ","S","h","o","u","l","d"," ","H","a","v","e"," ","(","P","1",")">>
NiceToHave ==
    <<"#","#","#"," ","4",".","3"," ","N","i","c","e"," ","t","o"," ","H","a","v","e"," ","(","P","2",")">>

FeatureHeading(p) ==
    CASE p = "P0" -> MustHave [] p = "P1" -> ShouldHave [] OTHER -> NiceToHave

RECURSIVE SearchIgnoreCase(_, _, _)
\* the first position at or after i where w occurs under the i flag; 0 if none
SearchIgnoreCase(s, w, i) ==
    IF i + Len(w) - 1 > Len(s) THEN 0
    ELSE IF StartsAtIgnoreCase(s, i, w) THEN i
    ELSE SearchIgnoreCase(s, w, i + 1)

\* the position at or after i where ## stands, Len(s) + 1 if nowhere: the
\* lookahead (?=###|##|$)
RECURSIVE SectionEnd(_, _)
SectionEnd(s, i) ==
    IF i > Len(s) THEN Len(s) + 1
    ELSE IF StartsAt(s, i, <<"#","#">>) THEN i
    ELSE SectionEnd(s, i + 1)

\* content.match(/<heading>[^#]*([\s\S]*?)(?=###|##|$)/i)?.[1]
MatchFeatureList(content, heading) ==
    LET at == SearchIgnoreCase(content, heading, 1)
        rest == FindClass(content, at + Len(heading), {"#"})
    IN IF at = 0 THEN Undefined
       ELSE Str(SubSeq(content, rest, SectionEnd(content, rest) - 1))

\* line.replace(/^-\s*\[?\s*[x\s]?\]?\s*/i, '').trim()
StripBullet(line) ==
    IF line = <<>> \/ Head(line) # "-" THEN Trim(line)
    ELSE LET open == SkipClass(line, 2, WhiteSpace)
             inside == SkipClass(line,
                                 IF open <= Len(line) /\ line[open] = "["
                                 THEN open + 1 ELSE open,
                                 WhiteSpace)
             close == IF inside <= Len(line) /\ line[inside] \in {"x", "X"}
                      THEN inside + 1 ELSE inside
             after == SkipClass(line,
                                IF close <= Len(line) /\ line[close] = "]"
                                THEN close + 1 ELSE close,
                                WhiteSpace)
         IN Trim(SubSeq(line, after, Len(line)))

\* lines 80-87
extractItems(text) ==
    IF ~Truthy(text) THEN <<>>
    ELSE LET IsBullet(line) == Trim(line) # <<>> /\ Head(Trim(line)) = "-"
             bullets == SelectSeq(SplitLines(text.chars), IsBullet)
             items == [i \in 1..Len(bullets) |-> StripBullet(bullets[i])]
         IN SelectSeq(items, LAMBDA item : item # <<>>)

\* lines 93-121: name is the number in `Feature ${n}`
FeaturesOf(items, priority, before) ==
    [i \in 1..Len(items) |->
        [name |-> before + i, description |-> items[i], priority |-> priority]]

\* lines 139-147: the feature used when the document lists none
CoreFeature ==
    [name |-> 0, description |-> <<"M","a","i","n">>, priority |-> "P0"]

\* parseDocumentStep.execute, lines 64-152: the features
parseDocument(content) ==
    LET p0Items == extractItems(MatchFeatureList(content, MustHave))
        p1Items == extractItems(MatchFeatureList(content, ShouldHave))
        p2Items == extractItems(MatchFeatureList(content, NiceToHave))
        features == FeaturesOf(p0Items, "P0", 0)
                    \o FeaturesOf(p1Items, "P1", Len(p0Items))
                    \o FeaturesOf(p2Items, "P2", Len(p0Items) + Len(p1Items))
    IN IF Len(features) > 0 THEN features ELSE <<CoreFeature>>

\* lines 224-261: the epic of the features of one priority, if there are any
EpicOf(features, priority) ==
    LET own == SelectSeq(features, LAMBDA f : f.priority = priority)
    IN IF Len(own) > 0
       THEN <<[id |-> PriorityRank(priority) + 1,
               estimatedEffort |-> IF Len(own) > 3 THEN "L"
                                   ELSE IF priority = "P2" THEN "S" ELSE "M",
               priority |-> priority]>>
       ELSE <<>>

\* generateEpicsStep.execute, lines 205-268; id is the number in EPIC-00n
generateEpics(features) ==
    EpicOf(features, "P0") \o EpicOf(features, "P1") \o EpicOf(features, "P2")

\* lines 351-353
NumStories(epic) ==
    CASE epic.estimatedEffort = "XL" -> 4
      [] epic.estimatedEffort = "L" -> 3
      [] epic.estimatedEffort = "M" -> 2
      [] OTHER -> 1

\* lines 359-384: the complexity of storyTemplates[i % 4], i counted from 0
TemplateComplexity(i) ==
    CASE i % 4 = 0 -> "simple"
      [] i % 4 = 1 -> "complex"
      [] OTHER -> "medium"

\* lines 355-396: the stories of the epic at index epicIdx (counted from 0);
\* the id US-eeii is the number eeii
StoriesOfEpic(epic, epicIdx) ==
    [k \in 1..NumStories(epic) |->
        [id |-> (epicIdx + 1) * 100 + k,
         epicId |-> epic.id,
         priority |-> epic.priority,
         complexity |-> TemplateComplexity(k - 1)]]

RECURSIVE StoriesFrom(_, _)
StoriesFrom(epics, epicIdx) ==
    IF epicIdx >= Len(epics) THEN <<>>
    ELSE StoriesOfEpic(epics[epicIdx + 1], epicIdx) \o StoriesFrom(epics, epicIdx + 1)

\* createStoriesStep.execute, lines 332-412
createStories(epics) == StoriesFrom(epics, 0)

\* mutant of DependenciesOf: a story depends on the next story of its epic
DependenciesOnNext(stories, story) ==
    LET epicStories == SelectSeq(stories, LAMBDA s : s.epicId = story.epicId)
        storyIdxInEpic ==
            CHOOSE k \in 1..Len(epicStories) : epicStories[k].id = story.id
    IN IF storyIdxInEpic < Len(epicStories)
       THEN {epicStories[storyIdxInEpic + 1].id} ELSE {}

\* lines 564-567: the story before this one in its epic
DependenciesOf(stories, story) ==
    LET epicStories == SelectSeq(stories, LAMBDA s : s.epicId = story.epicId)
        storyIdxInEpic ==
            CHOOSE k \in 1..Len(epicStories) : epicStories[k].id = story.id
    IN IF storyIdxInEpic > 1 THEN {epicStories[storyIdxInEpic - 1].id} ELSE {}

\* lines 522-523
PointsOfComplexity(complexity) ==
    CASE complexity = "complex" -> 8
      [] complexity = "medium" -> 5
      [] OTHER -> 3

\* addDetailsStep.execute, lines 517-596 (the texts are left out)
addDetails(stories) ==
    [k \in 1..Len(stories) |->
        [id |-> stories[k].id,
         epicId |-> stories[k].epicId,
         priority |-> stories[k].priority,
         storyPoints |-> PointsOfComplexity(stories[k].complexity),
         dependencies |-> DependenciesOf(stories, stories[k])]]

(***************************************************************************)
(* Runs of the story builder workflow                                      *)
(***************************************************************************)
\* a line between the heading and the items that starts with one #
NoteLine == <<"#","1"," ","n","o","t","e","\n">>

RECURSIVE ItemLines(_)
\* k list items, the first one with a checkbox
ItemLines(k) ==
    IF k = 0 THEN <<>>
    ELSE ItemLines(k - 1)
         \o (IF k = 1 THEN <<"-"," ","[","x","]"," ","a","\n">>
                      ELSE <<"-"," ","b","\n">>)

\* the feature list of one priority: absent, or the heading, possibly the
\* note line, and up to MaxItems items
FeatureSections(p) ==
    {<<>>} \cup
    { FeatureHeading(p) \o <<"\n">> \o note \o ItemLines(k) :
        note \in {<<>>, NoteLine}, k \in 0..MaxItems }

BuilderDocuments ==
    { s0 \o s1 \o s2 : s0 \in FeatureSections("P0"),
                       s1 \in FeatureSections("P1"),
                       s2 \in FeatureSections("P2") }

BuilderCalls ==
    [fn : {"storyBuilderWorkflow"}, documentContent : BuilderDocuments,
     velocity : Velocities]

\* step 1
ParseDocument ==
    /\ call.fn = "storyBuilderWorkflow" /\ ret = Pending
    /\ ret' = [step |-> "parse-document",
               features |-> parseDocument(call.documentContent)]
    /\ UNCHANGED <<call, plannerVars, pipelineVars, sessionVars, runs>>

\* step 2
GenerateEpics ==
    /\ call.fn = "storyBuilderWorkflow" /\ ret # Pending
    /\ ret.step = "parse-document"
    /\ ret' = [step |-> "generate-epics", epics |-> generateEpics(ret.features)]
    /\ UNCHANGED <<call, plannerVars, pipelineVars, sessionVars, runs>>

\* step 3
CreateStories ==
    /\ call.fn = "storyBuilderWorkflow" /\ ret # Pending
    /\ ret.step = "generate-epics"
    /\ ret' = [step |-> "create-stories", epics |-> ret.epics,
               stories |-> createStories(ret.epics)]
    /\ UNCHANGED <<call, plannerVars, pipelineVars, sessionVars, runs>>

\* step 4
AddDetails ==
    /\ call.fn = "storyBuilderWorkflow" /\ ret # Pending
    /\ ret.step = "create-stories"
    /\ ret' = [step |-> "add-details", epics |-> ret.epics,
               detailedStories |-> addDetails(ret.stories)]
    /\ UNCHANGED <<call, plannerVars, pipelineVars, sessionVars, runs>>

\* step 5 is entered with the detailed stories and the velocity of the team
EnterSprintPlanning ==
    /\ call.fn = "storyBuilderWorkflow" /\ ret # Pending
    /\ ret.step = "add-details" /\ plannerPc = "idle"
    /\ detailedStories' = ret.detailedStories
    /\ velocity' = call.velocity
    /\ plannerPc' = "sort"
    /\ UNCHANGED <<sortedStories, sprintPlan, assignedStories, currentSprint,
                   currentSprintPoints, currentSprintStories, loopIndex,
                   call, ret, pipelineVars, sessionVars, runs>>

BuilderInit == call \in BuilderCalls /\ ret = Pending /\ PlannerIdle /\ PipelineIdle /\ SessionIdle /\ RunsIdle

BuilderNext ==
    \/ ParseDocument \/ GenerateEpics \/ CreateStories \/ AddDetails
    \/ EnterSprintPlanning \/ PlannerNext

SpecBuilder == BuilderInit /\ [][BuilderNext]_vars

(***************************************************************************)
(* Story builder workflow: properties                                      *)
(***************************************************************************)
\* the planned story with the given id
Planned(id) ==
    assignedStories[CHOOSE k \in 1..Len(assignedStories) :
                        assignedStories[k].id = id]

\* the epic of a generated story
EpicIdOf(id) ==
    ret.detailedStories[CHOOSE k \in 1..Len(ret.detailedStories) :
                            ret.detailedStories[k].id = id].epicId

\* C29: in a run of the storyBuilderWorkflow each story with a dependency is
\* planned in a sprint that is not before the sprint of the story it depends
\* on, and every dependency is a generated story of the same epic.
C29_DependencyNotLater ==
    (call.fn = "storyBuilderWorkflow" /\ plannerPc = "done") =>
        /\ Len(assignedStories) = Len(ret.detailedStories)
        /\ \A i \in 1..Len(assignedStories) :
              \A d \in assignedStories[i].dependencies :
                 /\ \E k \in 1..Len(assignedStories) : assignedStories[k].id = d
                 /\ \E k \in 1..Len(ret.detailedStories) :
                       ret.detailedStories[k].id = d
                 /\ EpicIdOf(d) = EpicIdOf(assignedStories[i].id)
                 /\ Planned(d).sprint <= assignedStories[i].sprint

\* a finished run on a document that lists features of all three priorities,
\* with an epic of three stories that is spread over several sprints
C29_Witness ==
    /\ call.fn = "storyBuilderWorkflow" /\ plannerPc = "done"
    /\ Len(ret.epics) = 3
    /\ \E i, j \in 1..Len(assignedStories) :
          /\ assignedStories[j].id \in assignedStories[i].dependencies
          /\ assignedStories[j].sprint < assignedStories[i].sprint
    /\ \E e \in 1..3 : ret.epics[e].estimatedEffort = "L"

(***************************************************************************)
(* The interactive session (src/run.ts, main)                              *)
(***************************************************************************)
\* "Hello, I'd like to create a document."
Hello == <<"H","e","l","l","o">>

\* 'I apologize, but I was unable to generate a response.'
Apology == <<"I"," ","a","p","o","l","o","g","i","z","e">>

\* the lines the user may type
InputLines ==
    { <<"P","R","D">>, <<" ","m","o","r","e"," ">>, <<" ">>, <<>>,
      <<"h","e","l","p">>, <<"R","e","s","e","t">>, <<" ","r","e","s","e","t">>,
      <<"e","x","i","t">>, <<"Q","U","I","T">> }

\* response.text of the agent
ResponseTexts == { <<>>, <<"o","k">> }

Message(role, content) == [role |-> role, content |-> content]

LowerCased(s) == [i \in 1..Len(s) |-> toLowerCase(s[i])]

\* lines 152-161: chat(userMessage) up to the await
ChatCall(history, userMessage) ==
    /\ conversationHistory' = Append(history, Message("user", userMessage))
    /\ agentInput' = conversationHistory'
    /\ sessionPc' = "generating"

\* lines 183-186: the greeting, at the start of the session
Greet ==
    /\ sessionPc = "greeting"
    /\ ChatCall(conversationHistory, Hello)
    /\ UNCHANGED <<plannerVars, pipelineVars, utilVars, runs>>

\* lines 163-171: the call of the agent resolved
AgentReplies ==
    /\ sessionPc = "generating"
    /\ \E text \in ResponseTexts :
          conversationHistory' =
              Append(conversationHistory,
                     Message("assistant", IF text # <<>> THEN text ELSE Apology))
    /\ sessionPc' = "prompt"
    /\ UNCHANGED <<agentInput, plannerVars, pipelineVars, utilVars, runs>>

\* lines 172-176: the call of the agent was rejected
AgentFails ==
    /\ sessionPc = "generating"
    /\ sessionPc' = "prompt"
    /\ UNCHANGED <<conversationHistory, agentInput, plannerVars, pipelineVars,
                   utilVars, runs>>

\* lines 202-206
UserExits ==
    /\ sessionPc = "prompt"
    /\ \E input \in InputLines :
          LowerCased(Trim(input)) \in {<<"e","x","i","t">>, <<"q","u","i","t">>}
    /\ sessionPc' = "exited"
    /\ UNCHANGED <<conversationHistory, agentInput, plannerVars, pipelineVars,
                   utilVars, runs>>

\* lines 208-216
UserResets ==
    /\ sessionPc = "prompt"
    /\ \E input \in InputLines :
          LowerCased(Trim(input)) = <<"r","e","s","e","t">>
    /\ ChatCall(<<>>, Hello)
    /\ UNCHANGED <<plannerVars, pipelineVars, utilVars, runs>>

\* lines 218-229
UserAsksHelp ==
    /\ sessionPc = "prompt"
    /\ \E input \in InputLines :
          LowerCased(Trim(input)) = <<"h","e","l","p">>
    /\ UNCHANGED vars

\* lines 231-234
UserSendsNothing ==
    /\ sessionPc = "prompt"
    /\ \E input \in InputLines : Trim(input) = <<>>
    /\ UNCHANGED vars

\* lines 236-240: any other line is sent to the agent
UserSendsMessage ==
    /\ sessionPc = "prompt"
    /\ Len(conversationHistory) < MaxMessages
    /\ \E input \in InputLines :
          /\ LowerCased(Trim(input))
                \notin {<<"e","x","i","t">>, <<"q","u","i","t">>,
                        <<"r","e","s","e","t">>, <<"h","e","l","p">>, <<>>}
          /\ ChatCall(conversationHistory, Trim(input))
    /\ UNCHANGED <<plannerVars, pipelineVars, utilVars, runs>>

\* line 150: const conversationHistory: Message[] = []
SessionStart ==
    /\ conversationHistory = <<>>
    /\ agentInput = <<>>
    /\ sessionPc = "greeting"

SessionInit == SessionStart /\ PlannerIdle /\ PipelineIdle /\ UtilIdle /\ RunsIdle

SessionNext ==
    \/ Greet \/ AgentReplies \/ AgentFails \/ UserExits \/ UserResets
    \/ UserAsksHelp \/ UserSendsNothing \/ UserSendsMessage

SpecSession == SessionInit /\ [][SessionNext]_vars

(***************************************************************************)
(* The interactive session: properties                                     *)
(***************************************************************************)
\* user, assistant, user, ..., user
Alternates(messages) ==
    /\ Len(messages) % 2 = 1
    /\ \A i \in 1..Len(messages) :
          messages[i].role = IF i % 2 = 1 THEN "user" ELSE "assistant"

\* C30: the conversation history handed to the agent alternates user and
\* assistant messages, starting and ending with a user message.
C30_HistoryAlternates ==
    sessionPc = "generating" => Alternates(agentInput)

(***************************************************************************)
(* Concurrent runs of the automation CLI (src/cli/architect-auto.ts)       *)
(* Each run is a process of its own: its locals are private, the files     *)
(* under docs/ are shared.  fs.writeFileSync(path, content) opens the file *)
(* with flag 'w', which creates or truncates it, and then writes the       *)
(* content from offset 0; between the two system calls another process can *)
(* run.                                                                    *)
(***************************************************************************)
RunIds == {1, 2}

\* a later day
NextDay == "2026-01-13"

\* project names: two of them differ only in case
RunNames == { Demo, <<"d","e","m","o">>, <<"O","t","h","e","r">> }

\* the texts the generation service may return, of different lengths
RunTexts == { <<"a">>, <<"b","b">> }

\* the stages of a run, lines 397-461
RunStages(run) ==
    <<"PRD", "TDR">>
    \o (IF run.hasFrontend THEN <<"FrontendTDR">> ELSE <<>>)
    \o <<"Stories">>

\* lines 406, 423, 444, 461: the file of a stage
RunPath(run, stage) ==
    LET slug == sanitizeFilename(run.projectName)
        path == CASE stage = "PRD" -> FilePath("docs", slug, "prd", "md")
                  [] stage = "TDR" -> FilePath("docs", slug, "tdr", "md")
                  [] stage = "FrontendTDR" ->
                        FilePath("docs", slug, "frontend-tdr", "md")
                  [] OTHER -> FilePath("docs/stories", slug, "stories", "md")
    IN [path EXCEPT !.date = run.timestamp]

\* the file at the path, if there is one
FileAt(files, path) ==
    IF \E f \in files : f.path = path
    THEN CHOOSE f \in files : f.path = path
    ELSE [path |-> path, content |-> <<>>, writer |-> 0]

\* open(path, 'w'): the file is created or truncated
OpenTruncate(files, path) ==
    { f \in files : f.path # path }
    \cup { [FileAt(files, path) EXCEPT !.content = <<>>] }

\* write(fd, content) at offset 0: the bytes beyond the content stay
WriteAtStart(files, path, content, writer) ==
    LET old == FileAt(files, path).content
    IN { f \in files : f.path # path }
       \cup { [path |-> path,
               content |-> content \o SubSeq(old, Len(content) + 1, Len(old)),
               writer |-> writer] }

\* two processes are started
RunsStart ==
    /\ runs \in [RunIds -> [at : {"start"}, stage : {0},
                            projectName : RunNames,
                            timestamp : {Today, NextDay},
                            hasFrontend : BOOLEAN,
                            content : {<<>>}, saved : {{}}]]
    /\ runs[1].projectName = Demo /\ runs[1].timestamp = Today
    /\ ~runs[2].hasFrontend

\* lines 360-399: up to the first call of the generation service
RunStarts(r) ==
    /\ runs[r].at = "start"
    /\ runs' = [runs EXCEPT ![r].at = "await", ![r].stage = 1]
    /\ UNCHANGED <<plannerVars, pipelineVars, utilVars, sessionVars>>

\* the call resolved; saveDocument opens the file of the stage
RunOpens(r) ==
    /\ runs[r].at = "await"
    /\ \E text \in RunTexts :
          runs' = [runs EXCEPT ![r].at = "open", ![r].content = text]
    /\ disk' = OpenTruncate(disk, RunPath(runs[r], RunStages(runs[r])[runs[r].stage]))
    /\ UNCHANGED <<plannerVars, runner, config, pc, acc, events, pendingCalls,
                   exitCode, errors, result, utilVars, sessionVars>>

\* saveDocument writes the text; the run goes on to the next call of the
\* generation service, or finishes
RunWrites(r) ==
    /\ runs[r].at = "open"
    /\ LET run == runs[r]
           path == RunPath(run, RunStages(run)[run.stage])
           last == run.stage = Len(RunStages(run))
       IN /\ disk' = WriteAtStart(disk, path, run.content, r)
          /\ runs' = [runs EXCEPT
                         ![r].at = IF last THEN "done" ELSE "await",
                         ![r].stage = IF last THEN run.stage ELSE run.stage + 1,
                         ![r].content = <<>>,
                         ![r].saved = { s \in run.saved : s.path # path }
                                      \cup {[path |-> path, content |-> run.content]}]
    /\ UNCHANGED <<plannerVars, runner, config, pc, acc, events, pendingCalls,
                   exitCode, errors, result, utilVars, sessionVars>>

\* the call of the generation service was rejected: the run ends
RunFails(r) ==
    /\ runs[r].at = "await"
    /\ runs' = [runs EXCEPT ![r].at = "failed"]
    /\ UNCHANGED <<plannerVars, pipelineVars, utilVars, sessionVars>>

ConcurrentInit ==
    RunsStart /\ PlannerIdle /\ PipelineIdle /\ UtilIdle /\ SessionIdle

ConcurrentNext ==
    \E r \in RunIds : RunStarts(r) \/ RunOpens(r) \/ RunWrites(r) \/ RunFails(r)

SpecConcurrent == ConcurrentInit /\ [][ConcurrentNext]_vars

(***************************************************************************)
(* Concurrent runs: properties                                             *)
(***************************************************************************)
\* the two runs name the same files
Collide ==
    /\ sanitizeFilename(runs[1].projectName) = sanitizeFilename(runs[2].projectName)
    /\ runs[1].timestamp = runs[2].timestamp

\* the files of a finished run hold the documents the run generated
OwnDocumentsOnDisk(r) ==
    runs[r].at = "done" =>
        /\ Cardinality(runs[r].saved) = Len(RunStages(runs[r]))
        /\ \A s \in runs[r].saved :
              [path |-> s.path, content |-> s.content, writer |-> r] \in disk

\* a file that no run is writing holds the text its last writer wrote
LastWriterWins ==
    \A f \in disk :
        (/\ f.writer # 0
         /\ \A r \in RunIds :
               ~(runs[r].at = "open"
                 /\ RunPath(runs[r], RunStages(runs[r])[runs[r].stage]) = f.path))
        => [path |-> f.path, content |-> f.content] \in runs[f.writer].saved

\* C22: the runs share only the files: when their file names do not collide,
\* the files of a finished run hold that run's documents; when they collide,
\* each such file ends with the text of the run that wrote it last.
C22_OnlyFilesShared ==
    /\ ~Collide => \A r \in RunIds : OwnDocumentsOnDisk(r)
    /\ LastWriterWins

====
